---- MODULE Spec2Model ----
(***************************************************************************)
(* Connector abstraction of vector-admin: the Milvus and ClickHouse        *)
(* connectors (processDocument, similarityResponse, distanceToScore) and   *)
(* the connector factory (selectConnector), the connector validators, the  *)
(* NATS logger and the /auth/transfer-root endpoint.                       *)
(*                                                                         *)
(* JavaScript values that may be null/undefined or of several types are    *)
(* modelled as tagged records so that every comparison is well typed.      *)
(***************************************************************************)
EXTENDS Integers, Sequences, FiniteSets, TLC

(***************************************************************************)
(* Bounds of the model.                                                    *)
(***************************************************************************)
\* largest number of text chunks the splitter produces / embeddings returned
MaxChunks == 5
\* records per insert batch: the scaled-down stand-in for the 500 of
\* toChunks(vectors, 500), small enough that several batches occur
BatchSize == 2
\* largest topK a caller passes to similarityResponse
MaxTopK == 2
\* largest number of hits in one search reply (the backend is not trusted to
\* honour the limit, so this exceeds the smaller topK values)
MaxHits == 2
\* connections the logger opens (calls of init that reach connect)
MaxConns == 2
\* calls of publishLog
MaxLogs == 2
\* concurrent /auth/transfer-root requests
MaxRequests == 2

(***************************************************************************)
(* Program constants.                                                      *)
(***************************************************************************)
\* 1.0 of distanceToScore; scores are fixed-point numbers in hundredths
One == 100
\* similarityResponse(namespace, queryVector, topK = 4)
DefaultTopK == 4

VARIABLES
    active,       \* the processDocument invocations that run
    pd,           \* pd[p]: the frame (locals, position, result) of invocation p
    collection,   \* backend: ids of the VectorRecords held by the collection
    dbRows,       \* DocumentVectors table: sequence of mapping rows
    cacheFiles,   \* cacheFiles[d]: the cache artifact of document d
    nextUuid,     \* source of fresh v4() ids
    deleteCalls,  \* number of backend delete calls issued so far
    backendCalls, \* number of requests sent to a backend so far
    sr,           \* the frame of the similarityResponse call
    sel,          \* the frame of the selectConnector call
    call,         \* the frame of one call of another connector operation
    val,          \* the frame of the validateNewDatabaseConnector call
    orgConnections, \* OrganizationConnection rows created so far
    lg,           \* the NATS logger module: nc, js, connected, its calls
    auth          \* the users table and the /auth/transfer-root requests

vars == <<active, pd, collection, dbRows, cacheFiles, nextUuid, deleteCalls,
          backendCalls, sr, sel, call, val, orgConnections, lg, auth>>

\* the logger and the authentication endpoint
sideVars == <<lg, auth>>

\* the frames of the connector operations and of the validator
opsVars == <<call, val, orgConnections>>

\* the stores: backend collection, relational rows, cache files
storeVars == <<collection, dbRows, cacheFiles, nextUuid, deleteCalls>>

ingestVars == <<active, pd, storeVars>>

Invocations == {1, 2}

(***************************************************************************)
(* Small helpers.                                                          *)
(***************************************************************************)
Min(a, b) == IF a < b THEN a ELSE b

Range(s) == {s[i] : i \in DOMAIN s}

NoMessage == "null"

\* the value of an await: either it resolved or it rejected with e.message
Resolved == [ok |-> TRUE, message |-> NoMessage]

Rejected(msg) == [ok |-> FALSE, message |-> msg]

(***************************************************************************)
(* toChunks(arr, size) of utils: consecutive slices of at most size items. *)
(***************************************************************************)
toChunks(arr, size) ==
    [k \in 1..((Len(arr) + size - 1) \div size) |->
        SubSeq(arr, (k - 1) * size + 1, Min(k * size, Len(arr)))]

(***************************************************************************)
(* Connector instances: constructor + setConfig keep {type, settings}.     *)
(***************************************************************************)
ConfigTypes == {"milvus", "clickhouse", "chroma"}

ConnectorNames == {"milvus", "clickhouse"}

\* Milvus.connect: the type check, then the health probe of the new client.
\* probe is what client.checkHealth() does: "healthy", "unhealthy", "throw".
HealthProbes == {"healthy", "unhealthy", "throw"}

MilvusConnect(config, probe) ==
    IF config.type # "milvus"
    THEN Rejected("Milvus::Invalid Not a Milvus connector instance.")
    ELSE IF probe = "throw"
    THEN Rejected("checkHealth: transport error")
    ELSE IF probe # "healthy"
    THEN Rejected("Milvus::Connection failed - cluster is not healthy")
    ELSE Resolved

\* requests Milvus.connect sends: checkHealth, unless the type check threw
ConnectCalls(config) == IF config.type # "milvus" THEN 0 ELSE 1

(***************************************************************************)
(* processDocument: the frame of one invocation.                           *)
(***************************************************************************)
NoResult == [kind |-> "none", success |-> FALSE, message |-> NoMessage]

Returned(success, message) ==
    [kind |-> "returned", success |-> success, message |-> message]

Thrown(message) == [kind |-> "thrown", success |-> FALSE, message |-> message]

\* documentData.id and dbDocument.id of the document invocation p ingests
DocOf(p) == p

\* dbDocument: the WorkspaceDocument row of that document
DbDocument(p) == [id |-> DocOf(p), workspace_id |-> 1, organization_id |-> 1]

\* i-th chunk of the document of p; NoText is the undefined textChunks[i]
ChunkText(p, i) == [doc |-> DocOf(p), idx |-> i]

NoText == [doc |-> 0, idx |-> 0]

\* the embedding the provider computes for a chunk (opaque)
Embedding(p, i) == [doc |-> DocOf(p), idx |-> i]

IdleFrame ==
    [pc |-> "idle", connector |-> [name |-> "milvus", config |-> [type |-> "milvus"]],
     textChunks |-> <<>>, vectorValues |-> [isNull |-> TRUE, list |-> <<>>],
     vectors |-> <<>>, documentVectors |-> <<>>, cacheInfo |-> <<>>,
     batch |-> 0, sent |-> <<>>, outstanding |-> 0, result |-> NoResult,
     log |-> <<>>]

StartFrame(name, type) ==
    [IdleFrame EXCEPT !.pc = "start",
                      !.connector = [name |-> name, config |-> [type |-> type]]]

Event(op, r) == [op |-> op, ok |-> r.ok, message |-> r.message]

Logged(f, op, r) == [f EXCEPT !.log = Append(@, Event(op, r))]

\* faulty variant of Caught: the exception leaves processDocument
CaughtRethrow(f, msg) == [f EXCEPT !.pc = "done", !.result = Thrown(msg)]

\* catch (e) { return { success: false, message: e.message } }
Caught(f, msg) == [f EXCEPT !.pc = "done", !.result = Returned(FALSE, msg)]

\* faulty variant of HasEmbeddings: only the null check
HasEmbeddingsNullOnly(vectorValues) == ~vectorValues.isNull

\* if (!!vectorValues && vectorValues.length > 0)
HasEmbeddings(vectorValues) ==
    ~vectorValues.isNull /\ Len(vectorValues.list) > 0

\* variant: the ids are the positions of the records in their document
BuildRecordsByPosition(f, p, base) ==
    LET vv == f.vectorValues.list
        text(i) == IF i <= Len(f.textChunks) THEN f.textChunks[i] ELSE NoText
    IN  [f EXCEPT
            !.vectors = [i \in 1..Len(vv) |->
                [id |-> i, values |-> vv[i], text |-> text(i)]],
            !.documentVectors = [i \in 1..Len(vv) |->
                [docId |-> DocOf(p), vectorId |-> i,
                 documentId |-> DbDocument(p).id,
                 workspaceId |-> DbDocument(p).workspace_id,
                 organizationId |-> DbDocument(p).organization_id]],
            !.cacheInfo = [i \in 1..Len(vv) |->
                [vectorDbId |-> i, values |-> vv[i], text |-> text(i)]]]

\* the for loop that builds vectors, documentVectors and cacheInfo; the i-th
\* record takes the id base + i from v4()
BuildRecords(f, p, base) ==
    LET vv == f.vectorValues.list
        text(i) == IF i <= Len(f.textChunks) THEN f.textChunks[i] ELSE NoText
    IN  [f EXCEPT
            !.vectors = [i \in 1..Len(vv) |->
                [id |-> base + i, values |-> vv[i], text |-> text(i)]],
            !.documentVectors = [i \in 1..Len(vv) |->
                [docId |-> DocOf(p), vectorId |-> base + i,
                 documentId |-> DbDocument(p).id,
                 workspaceId |-> DbDocument(p).workspace_id,
                 organizationId |-> DbDocument(p).organization_id]],
            !.cacheInfo = [i \in 1..Len(vv) |->
                [vectorDbId |-> base + i, values |-> vv[i], text |-> text(i)]]]

\* else branch: the document will not be recorded
NoEmbeddings(f) ==
    [f EXCEPT !.pc = "done",
              !.result = Returned(FALSE, "Failed to generate embeddings")]

\* faulty variant of AfterLoad: the mapping rows are written ahead of the inserts
AfterLoadMappingFirst(f) == [f EXCEPT !.pc = "createMany"]

\* what follows loadCollection: the insert loop, or past it when it is empty
AfterLoad(f) ==
    [f EXCEPT !.pc = IF Len(toChunks(f.vectors, BatchSize)) = 0
                     THEN "createMany" ELSE "insert"]

\* the ids of the records of batch k of toChunks(vectors, 500)
BatchIds(f, k) ==
    LET chunk == toChunks(f.vectors, BatchSize)[k]
    IN  [i \in DOMAIN chunk |-> chunk[i].id]

\* variant: the inserts of all the batches are issued together
IssueAll(f) ==
    [f EXCEPT !.pc = "inserting",
              !.sent = @ \o [k \in 1..(Len(toChunks(f.vectors, BatchSize)) - f.batch)
                                |-> BatchIds(f, f.batch + k)],
              !.outstanding = @ + Len(toChunks(f.vectors, BatchSize)) - f.batch]

\* client.insert({ data: insertData }) of the current batch is issued
Issue(f) ==
    [f EXCEPT !.pc = "inserting",
              !.sent = Append(@, BatchIds(f, f.batch + 1)),
              !.outstanding = @ + 1]

\* the awaited insert settled
Settled(f) == [f EXCEPT !.outstanding = @ - 1]

\* an insert batch resolved: next batch, or past the loop
AfterInsert(f) ==
    [f EXCEPT !.batch = @ + 1,
              !.pc = IF f.batch + 1 >= Len(toChunks(f.vectors, BatchSize))
                     THEN "createMany" ELSE "insert"]

\* faulty variant of InsertFailed: the rejection is swallowed inside the loop
InsertFailedContinue(f, msg) == AfterInsert(f)

\* client.insert rejected inside the loop: the exception leaves the loop
InsertFailed(f, msg) == Caught(f, msg)

(***************************************************************************)
(* Score normalisation.  A raw score is a JavaScript value: a number (in   *)
(* hundredths), NaN (typeof "number", every comparison false), null,       *)
(* undefined or a string.                                                  *)
(***************************************************************************)
Num(v) == [t |-> "number", v |-> v]

NaN == [t |-> "nan", v |-> 0]

RawScores ==
    {Num(v) : v \in {0 - (One \div 5), 0, (One * 42) \div 100, One, One + One \div 2}}
    \cup {NaN, [t |-> "null", v |-> 0], [t |-> "undefined", v |-> 0],
          [t |-> "string", v |-> 0]}

\* distanceToScore(distance = null)
distanceToScore(distance) ==
    IF distance.t \in {"undefined", "null"} \/ distance.t \notin {"number", "nan"}
    THEN Num(0)
    ELSE IF distance.t = "number" /\ distance.v >= One THEN Num(One)
    ELSE IF distance.t = "number" /\ distance.v <= 0 THEN Num(0)
    ELSE distance

(***************************************************************************)
(* similarityResponse.                                                     *)
(***************************************************************************)
Undefined == "undefined"

\* a metadata object: the keys the model follows, Undefined when absent
EmptyObject == [title |-> Undefined, text |-> Undefined]

\* hit.metadata: absent (falsy), a JSON text of an object, or a text that
\* JSON.parse rejects
NoBlob == [kind |-> "absent", value |-> EmptyObject]

JsonOf(obj) == [kind |-> "json", value |-> obj]

Garbage == [kind |-> "garbage", value |-> EmptyObject]

\* JSON.parse(blob): the parsed object, or a SyntaxError
JSONParse(blob) ==
    IF blob.kind = "json"
    THEN [ok |-> TRUE, value |-> blob.value]
    ELSE [ok |-> FALSE, value |-> EmptyObject]

\* text, metadata of the hits a backend may return
HitBodies ==
    {[text |-> "chunk A", metadata |-> JsonOf([title |-> "doc", text |-> "chunk A"])],
     [text |-> "chunk B", metadata |-> Garbage],
     [text |-> Undefined, metadata |-> NoBlob],
     [text |-> "", metadata |-> Garbage]}

\* the hits a backend may return, without their ids
Hits ==
    {[text |-> b.text, metadata |-> b.metadata, score |-> sc] :
        b \in HitBodies, sc \in RawScores}

\* result.results of client.search: the hits hs, best first, with distinct ids
SearchResults(hs) ==
    [i \in DOMAIN hs |-> [id |-> i, text |-> hs[i].text, score |-> hs[i].score,
                          metadata |-> hs[i].metadata]]

EmptyResponse ==
    [vectorIds |-> <<>>, contextTexts |-> <<>>, sourceDocuments |-> <<>>,
     scores |-> <<>>]

\* hit.text || ""
OrEmpty(text) == IF text = Undefined THEN "" ELSE text

\* metadata = hit.metadata ? JSON.parse(hit.metadata) : {}, {text} on a throw
HitMetadata(hit) ==
    IF hit.metadata.kind = "absent" THEN EmptyObject
    ELSE IF JSONParse(hit.metadata).ok THEN JSONParse(hit.metadata).value
    ELSE [EmptyObject EXCEPT !.text = hit.text]

\* faulty variant of PushHit: a hit whose metadata does not parse gets no metadata
PushHitDropUnparsed(response, hit) ==
    [vectorIds |-> Append(response.vectorIds, hit.id),
     contextTexts |-> Append(response.contextTexts, OrEmpty(hit.text)),
     scores |-> Append(response.scores, distanceToScore(hit.score)),
     sourceDocuments |->
        IF hit.metadata.kind = "garbage" THEN response.sourceDocuments
        ELSE Append(response.sourceDocuments, HitMetadata(hit))]

\* the body of: for (const hit of result.results || [])
PushHit(response, hit) ==
    [vectorIds |-> Append(response.vectorIds, hit.id),
     contextTexts |-> Append(response.contextTexts, OrEmpty(hit.text)),
     scores |-> Append(response.scores, distanceToScore(hit.score)),
     sourceDocuments |-> Append(response.sourceDocuments, HitMetadata(hit))]

RECURSIVE BuildResponse(_, _)
BuildResponse(response, results) ==
    IF results = <<>> THEN response
    ELSE BuildResponse(PushHit(response, Head(results)), Tail(results))

\* topK: omitted (the default applies) or given
TopKArgs == {[given |-> FALSE, value |-> 0]} \cup
            {[given |-> TRUE, value |-> k] : k \in 1..MaxTopK}

TopKOf(arg) == IF arg.given THEN arg.value ELSE DefaultTopK

IdleQuery ==
    [pc |-> "idle", connector |-> [name |-> "milvus", config |-> [type |-> "milvus"]],
     topK |-> [given |-> FALSE, value |-> 0], limit |-> 0, searched |-> FALSE,
     results |-> <<>>, response |-> EmptyResponse, kind |-> "none"]

\* catch (e) { return the all-empty structure }
SrCaught(f) == [f EXCEPT !.pc = "done", !.kind = "returned", !.response = EmptyResponse]

SrConnect ==
    /\ sr.pc = "start"
    /\ sr.connector.name = "milvus"
    /\ \E probe \in HealthProbes :
        sr' = IF MilvusConnect(sr.connector.config, probe).ok
              THEN [sr EXCEPT !.pc = "load"]
              ELSE SrCaught(sr)
    /\ backendCalls' = backendCalls + ConnectCalls(sr.connector.config)
    /\ UNCHANGED <<sideVars, opsVars, ingestVars, sel>>

SrLoad ==
    /\ sr.pc = "load"
    /\ \/ sr' = [sr EXCEPT !.pc = "search"]
       \/ sr' = SrCaught(sr)
    /\ backendCalls' = backendCalls + 1
    /\ UNCHANGED <<sideVars, opsVars, ingestVars, sel>>

\* client.search({ ..., limit: topK }), then the loop over the hits
SrSearch ==
    /\ sr.pc = "search"
    /\ \/ \E n \in 0..MaxHits : \E hs \in [1..n -> Hits] :
            sr' = [sr EXCEPT !.pc = "done", !.kind = "returned",
                             !.limit = TopKOf(sr.topK), !.searched = TRUE,
                             !.results = SearchResults(hs),
                             !.response = BuildResponse(EmptyResponse,
                                                        SearchResults(hs))]
       \/ sr' = [SrCaught(sr) EXCEPT !.limit = TopKOf(sr.topK)]
    /\ backendCalls' = backendCalls + 1
    /\ UNCHANGED <<sideVars, opsVars, ingestVars, sel>>

\* ClickHouse.similarityResponse: always the all-empty structure
ClickHouseSimilarityResponse ==
    /\ sr.pc = "start"
    /\ sr.connector.name = "clickhouse"
    /\ sr' = [sr EXCEPT !.pc = "done", !.kind = "returned", !.response = EmptyResponse]
    /\ UNCHANGED <<sideVars, opsVars, ingestVars, backendCalls, sel>>

SimilarityResponse ==
    \/ SrConnect
    \/ SrLoad
    \/ SrSearch
    \/ ClickHouseSimilarityResponse

(***************************************************************************)
(* selectConnector.                                                        *)
(***************************************************************************)
\* OrganizationConnection.supportedConnectors
SupportedConnectors ==
    {"chroma", "pinecone", "qdrant", "weaviate", "milvus", "clickhouse"}

\* type tags a caller may pass; the last four are not supported
ConnectorTypes == SupportedConnectors \cup {"redis", "lancedb", "", Undefined}

\* settings objects, and their two encodings in an organizationConnector:
\* the object itself, or the JSON text of it as the database stores it
SettingsObjects ==
    {[host |-> "db.internal", port |-> "19530"],
     [host |-> "db.internal", port |-> Undefined],
     [host |-> "localhost", port |-> "8123"]}

AsObject(obj) == [isString |-> FALSE, value |-> obj]

Stringified(obj) == [isString |-> TRUE, value |-> obj]

OrganizationConnectors ==
    {[type |-> t, settings |-> st] :
        t \in ConnectorTypes,
        st \in {AsObject(o) : o \in SettingsObjects} \cup
               {Stringified(o) : o \in SettingsObjects}}

\* setConfig: if (typeof settings === "string") settings = JSON.parse(settings)
setConfig(config) ==
    [type |-> config.type,
     settings |-> IF config.settings.isString
                  THEN AsObject(config.settings.value)
                  ELSE config.settings]

\* new Milvus(connector)
NewMilvus(connector) ==
    [class |-> "Milvus", name |-> "milvus", config |-> setConfig(connector)]

\* new ClickHouse(connector)
NewClickHouse(connector) ==
    [class |-> "ClickHouse", name |-> "clickhouse", config |-> setConfig(connector)]

\* new Chroma / Pinecone / QDrant / Weaviate (connector)
NewConnector(class, name, connector) ==
    [class |-> class, name |-> name, config |-> setConfig(connector)]

NoConnector ==
    [class |-> "none", name |-> "none",
     config |-> [type |-> "none", settings |-> AsObject([host |-> "", port |-> Undefined])]]

Selected(connector) ==
    [kind |-> "returned", connector |-> connector, message |-> NoMessage]

SelectThrew(message) ==
    [kind |-> "thrown", connector |-> NoConnector, message |-> message]

\* faulty variant of selectConnector: the clickhouse branch is missing
selectConnectorNoClickHouse(organizationConnector) ==
    LET type == organizationConnector.type
    IN  IF type \notin SupportedConnectors
        THEN SelectThrew("Unsupported connector for vector database.")
        ELSE IF type = "chroma"
        THEN Selected(NewConnector("Chroma", "chroma", organizationConnector))
        ELSE IF type = "pinecone"
        THEN Selected(NewConnector("Pinecone", "pinecone", organizationConnector))
        ELSE IF type = "qdrant"
        THEN Selected(NewConnector("QDrant", "qdrant", organizationConnector))
        ELSE IF type = "weaviate"
        THEN Selected(NewConnector("Weaviate", "weaviate", organizationConnector))
        ELSE IF type = "milvus"
        THEN Selected(NewMilvus(organizationConnector))
        ELSE SelectThrew("Could not find supported connector for vector database.")

selectConnector(organizationConnector) ==
    LET type == organizationConnector.type
    IN  IF type \notin SupportedConnectors
        THEN SelectThrew("Unsupported connector for vector database.")
        ELSE IF type = "chroma"
        THEN Selected(NewConnector("Chroma", "chroma", organizationConnector))
        ELSE IF type = "pinecone"
        THEN Selected(NewConnector("Pinecone", "pinecone", organizationConnector))
        ELSE IF type = "qdrant"
        THEN Selected(NewConnector("QDrant", "qdrant", organizationConnector))
        ELSE IF type = "weaviate"
        THEN Selected(NewConnector("Weaviate", "weaviate", organizationConnector))
        ELSE IF type = "milvus"
        THEN Selected(NewMilvus(organizationConnector))
        ELSE IF type = "clickhouse"
        THEN Selected(NewClickHouse(organizationConnector))
        ELSE SelectThrew("Could not find supported connector for vector database.")

IdleSelect ==
    [pc |-> "idle",
     organizationConnector |->
        [type |-> Undefined, settings |-> AsObject([host |-> "", port |-> Undefined])],
     result |-> [kind |-> "none", connector |-> NoConnector, message |-> NoMessage]]

\* one call of selectConnector: it only computes its result
SelectConnector ==
    /\ sel.pc = "start"
    /\ sel' = [sel EXCEPT !.pc = "done",
                          !.result = selectConnector(sel.organizationConnector)]
    /\ UNCHANGED <<sideVars, opsVars, ingestVars, backendCalls, sr>>

(***************************************************************************)
(* The other connector operations (heartbeat, totalIndicies, namespaces,   *)
(* namespace, namespaceExists, rawGet, getMetadata, deleteVectors,         *)
(* executeQuery, connect): one call, one action per await.                 *)
(***************************************************************************)
\* an element of a returned list: a collection / table with its row count,
\* or a row with its id
Item(name, n) == [name |-> name, n |-> n]

NoOpResult ==
    [kind |-> "none", flag |-> FALSE, n |-> 0, list |-> <<>>, ids |-> <<>>,
     isNull |-> FALSE, error |-> NoMessage]

\* return value; the fields an operation does not return keep their default
OpReturned(value) == [value EXCEPT !.kind = "returned"]

OpThrown(msg) == [NoOpResult EXCEPT !.kind = "thrown", !.error = msg]

IdleCall ==
    [pc |-> "idle", conn |-> "milvus", type |-> "milvus", op |-> "heartbeat",
     name |-> "a", ids |-> <<>>, names |-> <<>>, i |-> 0, total |-> 0,
     list |-> <<>>, opened |-> 0, closed |-> 0, probe |-> "none", reqs |-> <<>>,
     failed |-> <<>>, swallowed |-> <<>>, result |-> NoOpResult]

\* a frame after the request req was sent
Sent(f, req) == [f EXCEPT !.reqs = Append(@, req)]

\* a frame after a request rejected with msg (recorded, whoever catches it)
Failed(f, msg) == [f EXCEPT !.failed = Append(@, msg)]

\* a frame after a rejection caught inside the body of iteration f.i of a
\* loop, which goes on
Swallowed(f, msg) == [f EXCEPT !.swallowed = Append(@, f.i)]

Finish(f, result) == [f EXCEPT !.pc = "done", !.result = result]

\* variant: namespaceExists answers true from its catch block
CatchValueTrue(op, msg) ==
    IF op = "namespaceExists"
    THEN [NoOpResult EXCEPT !.flag = TRUE]
    ELSE [NoOpResult EXCEPT !.error = msg]

\* the value the catch block of operation op returns for e.message = msg
CatchValue(op, msg) ==
    CASE op = "heartbeat" -> [NoOpResult EXCEPT !.flag = FALSE, !.error = msg]
      [] op = "totalIndicies" -> [NoOpResult EXCEPT !.n = 0, !.error = msg]
      [] op = "namespaces" -> NoOpResult
      [] op = "namespace" -> [NoOpResult EXCEPT !.isNull = TRUE]
      [] op = "namespaceExists" -> [NoOpResult EXCEPT !.flag = FALSE]
      [] op = "rawGet" -> [NoOpResult EXCEPT !.error = msg]
      [] op = "getMetadata" -> NoOpResult
      [] op = "deleteVectors" -> [NoOpResult EXCEPT !.flag = FALSE, !.error = msg]
      [] op = "executeQuery" -> [NoOpResult EXCEPT !.error = msg]

\* variant: no operation catches
OpCaughtRethrow(f, msg) == Finish(Failed(f, msg), OpThrown(msg))

\* an exception inside operation f.op: connect has no try, the others catch
OpCaught(f, msg) ==
    IF f.op = "connect"
    THEN Finish(Failed(f, msg), OpThrown(msg))
    ELSE Finish(Failed(f, msg), OpReturned(CatchValue(f.op, msg)))

\* the message of the missing-argument error of each connector
MissingNameError(conn) ==
    IF conn = "clickhouse"
    THEN "No namespace (table) value provided."
    ELSE "No namespace value provided."

\* variant: no check of the name
MissingNameNever(f) == FALSE

\* if (!name) throw new Error(...), ahead of the try
MissingName(f) == f.op \in {"namespace", "namespaceExists"} /\ f.name = ""

\* ClickHouse.getMetadata: if (!ids.length) return []
NoIds(f) == f.conn = "clickhouse" /\ f.op = "getMetadata" /\ Len(f.ids) = 0

\* entry of an operation up to its first await
OpEnter ==
    /\ call.pc = "start"
    /\ call' = IF MissingName(call)
               THEN Finish(call, OpThrown(MissingNameError(call.conn)))
               ELSE IF NoIds(call)
               THEN Finish(call, OpReturned(NoOpResult))
               ELSE [call EXCEPT !.pc = "connect"]
    /\ UNCHANGED <<sideVars, ingestVars, backendCalls, sr, sel, val, orgConnections>>

(***************************************************************************)
(* ClickHouse operations.                                                  *)
(***************************************************************************)
\* what client.ping() does
Pings == {"success", "unsuccessful", "throw"}

\* ClickHouse.connect after createClient: the ping and the check of it
ClickHouseConnect(config, ping) ==
    IF ping = "throw"
    THEN Rejected("ping: transport error")
    ELSE IF ping # "success"
    THEN Rejected("ClickHouse::Connection failed - ping unsuccessful")
    ELSE Resolved

\* client.close()
Closed(f) == [f EXCEPT !.closed = @ + 1]

\* this.connect(): createClient opens a client, which is then pinged
ChConnect ==
    /\ call.pc = "connect"
    /\ call.conn = "clickhouse"
    /\ \E ping \in Pings :
        LET r == ClickHouseConnect([type |-> call.type], ping)
            f == Sent([call EXCEPT !.opened = @ + 1, !.probe = ping], "ping")
        IN  call' = IF ~r.ok THEN OpCaught(f, r.message)
                    ELSE IF f.op = "connect"
                    THEN Finish(f, OpReturned([NoOpResult EXCEPT !.flag = TRUE]))
                    ELSE [f EXCEPT !.pc = "body"]
    /\ backendCalls' = backendCalls + 1
    /\ UNCHANGED <<sideVars, ingestVars, sr, sel, val, orgConnections>>

\* heartbeat: a second ping, close, { result: result.success, error: null }
ChHeartbeat ==
    /\ call.pc = "body"
    /\ call.conn = "clickhouse"
    /\ call.op = "heartbeat"
    /\ \/ \E success \in BOOLEAN :
            call' = Finish(Closed(Sent(call, "ping")),
                           OpReturned([NoOpResult EXCEPT !.flag = success]))
       \/ call' = OpCaught(Sent(call, "ping"), "ping: transport error")
    /\ backendCalls' = backendCalls + 1
    /\ UNCHANGED <<sideVars, ingestVars, sr, sel, val, orgConnections>>

\* the operations that send one query and return a function of its rows
ChQueryOps ==
    {"totalIndicies", "namespaces", "namespaceExists", "rawGet", "getMetadata",
     "executeQuery"}

\* rows a query of operation f.op may produce (await result.json())
ChReplies(f) ==
    CASE f.op = "totalIndicies" ->
            {<<>>, <<Item("total", 0)>>, <<Item("total", 5)>>}
      [] f.op = "namespaces" ->
            {<<>>, <<Item("a", 2)>>, <<Item("a", 2), Item("b", 0)>>}
      [] f.op = "namespaceExists" ->
            {<<>>, <<Item("1", 1)>>}
      [] OTHER ->
            {<<>>, <<Item("row", 1)>>, <<Item("row", 1), Item("row", 2)>>}

\* the value returned for the rows data
ChValue(f, data) ==
    CASE f.op = "totalIndicies" ->
            [NoOpResult EXCEPT !.n = IF Len(data) = 0 THEN 0 ELSE data[1].n]
      [] f.op = "namespaces" -> [NoOpResult EXCEPT !.list = data]
      [] f.op = "namespaceExists" -> [NoOpResult EXCEPT !.flag = Len(data) > 0]
      [] f.op = "rawGet" ->
            [NoOpResult EXCEPT !.list = data,
                               !.ids = [i \in DOMAIN data |-> data[i].n]]
      [] OTHER -> [NoOpResult EXCEPT !.list = data]

\* client.query + result.json(), client.close(), return
ChQuery ==
    /\ call.pc = "body"
    /\ call.conn = "clickhouse"
    /\ call.op \in ChQueryOps
    /\ \/ \E data \in ChReplies(call) :
            call' = Finish(Closed(Sent(call, "query")), OpReturned(ChValue(call, data)))
       \/ call' = OpCaught(Sent(call, "query"), "query failed")
    /\ backendCalls' = backendCalls + 1
    /\ UNCHANGED <<sideVars, ingestVars, sr, sel, val, orgConnections>>

\* namespace: the table query; no such table closes and returns null
ChNamespaceTable ==
    /\ call.pc = "body"
    /\ call.conn = "clickhouse"
    /\ call.op = "namespace"
    /\ \/ call' = Finish(Closed(Sent(call, "query")),
                         OpReturned([NoOpResult EXCEPT !.isNull = TRUE]))
       \/ \E rows \in {0, 2} :
            call' = [Sent(call, "query") EXCEPT !.pc = "columns", !.total = rows]
       \/ call' = OpCaught(Sent(call, "query"), "query failed")
    /\ backendCalls' = backendCalls + 1
    /\ UNCHANGED <<sideVars, ingestVars, sr, sel, val, orgConnections>>

\* namespace: the columns query, close, return the table
ChNamespaceColumns ==
    /\ call.pc = "columns"
    /\ \/ call' = Finish(Closed(Sent(call, "query")),
                         OpReturned([NoOpResult EXCEPT
                                        !.list = <<Item(call.name, call.total)>>]))
       \/ call' = OpCaught(Sent(call, "query"), "query failed")
    /\ backendCalls' = backendCalls + 1
    /\ UNCHANGED <<sideVars, ingestVars, sr, sel, val, orgConnections>>

\* deleteVectors: ALTER TABLE ... DELETE WHERE id IN (ids), close
ChDelete ==
    /\ call.pc = "body"
    /\ call.conn = "clickhouse"
    /\ call.op = "deleteVectors"
    /\ \/ /\ call' = Finish(Closed(Sent(call, "delete")),
                            OpReturned([NoOpResult EXCEPT !.flag = TRUE]))
          /\ collection' = collection \ Range(call.ids)
       \/ /\ call' = OpCaught(Sent(call, "delete"), "delete failed")
          /\ UNCHANGED collection
    /\ deleteCalls' = deleteCalls + 1
    /\ backendCalls' = backendCalls + 1
    /\ UNCHANGED <<sideVars, active, pd, dbRows, cacheFiles, nextUuid, sr, sel, val,
                   orgConnections>>

(***************************************************************************)
(* Milvus operations.                                                      *)
(***************************************************************************)
\* this.connect(): type check, new MilvusClient, checkHealth
MvConnect ==
    /\ call.pc = "connect"
    /\ call.conn = "milvus"
    /\ \E probe \in HealthProbes :
        LET r == MilvusConnect([type |-> call.type], probe)
            n == ConnectCalls([type |-> call.type])
            f == IF n = 0 THEN call
                 ELSE Sent([call EXCEPT !.opened = @ + 1, !.probe = probe],
                           "checkHealth")
        IN  /\ call' = IF ~r.ok THEN OpCaught(f, r.message)
                       ELSE IF f.op = "connect"
                       THEN Finish(f, OpReturned([NoOpResult EXCEPT !.flag = TRUE]))
                       ELSE [f EXCEPT !.pc = "body"]
            /\ backendCalls' = backendCalls + n
    /\ UNCHANGED <<sideVars, ingestVars, sr, sel, val, orgConnections>>

\* heartbeat: { result: health.isHealthy, error: null }
MvHeartbeat ==
    /\ call.pc = "body"
    /\ call.conn = "milvus"
    /\ call.op = "heartbeat"
    /\ \/ \E isHealthy \in BOOLEAN :
            call' = Finish(Sent(call, "checkHealth"),
                           OpReturned([NoOpResult EXCEPT !.flag = isHealthy]))
       \/ call' = OpCaught(Sent(call, "checkHealth"), "checkHealth: transport error")
    /\ backendCalls' = backendCalls + 1
    /\ UNCHANGED <<sideVars, ingestVars, sr, sel, val, orgConnections>>

\* collection_names of a listCollections reply (absent: || [])
CollectionNames == {<<>>, <<"a">>, <<"a", "b">>}

\* stats.data?.row_count of a getCollectionStatistics reply
RowCounts == {[defined |-> TRUE, n |-> 2], [defined |-> FALSE, n |-> 0]}

\* parseInt(stats.data?.row_count || 0)
ParseRowCount(rc) == IF rc.defined THEN rc.n ELSE 0

\* the value returned when the loop over the collections is over
LoopValue(f) ==
    IF f.op = "totalIndicies"
    THEN [NoOpResult EXCEPT !.n = f.total]
    ELSE [NoOpResult EXCEPT !.list = f.list]

\* end of one iteration: the next collection, or the return after the loop
LoopNext(f) ==
    IF f.i >= Len(f.names)
    THEN Finish(f, OpReturned(LoopValue(f)))
    ELSE [f EXCEPT !.pc = "loop", !.i = @ + 1]

\* totalIndicies / namespaces: client.listCollections()
MvList ==
    /\ call.pc = "body"
    /\ call.conn = "milvus"
    /\ call.op \in {"totalIndicies", "namespaces"}
    /\ \/ \E names \in CollectionNames :
            call' = LoopNext([Sent(call, "listCollections") EXCEPT !.names = names])
       \/ call' = OpCaught(Sent(call, "listCollections"), "listCollections failed")
    /\ backendCalls' = backendCalls + 1
    /\ UNCHANGED <<sideVars, ingestVars, sr, sel, val, orgConnections>>

\* totalIndicies loop body: getCollectionStatistics inside its own try/catch
MvTotalStats ==
    /\ call.pc = "loop"
    /\ call.op = "totalIndicies"
    /\ \/ \E rc \in RowCounts :
            call' = LoopNext([Sent(call, "getCollectionStatistics") EXCEPT
                                 !.total = @ + ParseRowCount(rc)])
       \/ call' = LoopNext(Swallowed(Sent(call, "getCollectionStatistics"),
                                     "getCollectionStatistics failed"))
    /\ backendCalls' = backendCalls + 1
    /\ UNCHANGED <<sideVars, ingestVars, sr, sel, val, orgConnections>>

\* namespaces loop body, first await: getCollectionStatistics
MvNamespacesStats ==
    /\ call.pc = "loop"
    /\ call.op = "namespaces"
    /\ \/ \E rc \in RowCounts :
            call' = [Sent(call, "getCollectionStatistics") EXCEPT
                        !.pc = "loopDescribe", !.total = ParseRowCount(rc)]
       \/ call' = LoopNext([Swallowed(Sent(call, "getCollectionStatistics"),
                                      "getCollectionStatistics failed") EXCEPT
                               !.list = Append(@, Item(call.names[call.i], 0))])
    /\ backendCalls' = backendCalls + 1
    /\ UNCHANGED <<sideVars, ingestVars, sr, sel, val, orgConnections>>

\* namespaces loop body, second await: describeCollection, then the push
MvNamespacesDescribe ==
    /\ call.pc = "loopDescribe"
    /\ \/ call' = LoopNext([Sent(call, "describeCollection") EXCEPT
                               !.list = Append(@, Item(call.names[call.i], call.total))])
       \/ call' = LoopNext([Swallowed(Sent(call, "describeCollection"),
                                      "describeCollection failed") EXCEPT
                               !.list = Append(@, Item(call.names[call.i], 0))])
    /\ backendCalls' = backendCalls + 1
    /\ UNCHANGED <<sideVars, ingestVars, sr, sel, val, orgConnections>>

\* namespace(name): describeCollection
MvNamespaceDescribe ==
    /\ call.pc = "body"
    /\ call.conn = "milvus"
    /\ call.op = "namespace"
    /\ \/ call' = [Sent(call, "describeCollection") EXCEPT !.pc = "stats"]
       \/ call' = OpCaught(Sent(call, "describeCollection"), "describeCollection failed")
    /\ backendCalls' = backendCalls + 1
    /\ UNCHANGED <<sideVars, ingestVars, sr, sel, val, orgConnections>>

\* namespace(name): getCollectionStatistics, return the collection
MvNamespaceStats ==
    /\ call.pc = "stats"
    /\ \/ \E rc \in RowCounts :
            call' = Finish(Sent(call, "getCollectionStatistics"),
                           OpReturned([NoOpResult EXCEPT
                                !.list = <<Item(call.name, ParseRowCount(rc))>>]))
       \/ call' = OpCaught(Sent(call, "getCollectionStatistics"),
                           "getCollectionStatistics failed")
    /\ backendCalls' = backendCalls + 1
    /\ UNCHANGED <<sideVars, ingestVars, sr, sel, val, orgConnections>>

\* namespaceExists: client.hasCollection, return result.value
MvHasCollection ==
    /\ call.pc = "body"
    /\ call.conn = "milvus"
    /\ call.op = "namespaceExists"
    /\ \/ \E value \in BOOLEAN :
            call' = Finish(Sent(call, "hasCollection"),
                           OpReturned([NoOpResult EXCEPT !.flag = value]))
       \/ call' = OpCaught(Sent(call, "hasCollection"), "hasCollection failed")
    /\ backendCalls' = backendCalls + 1
    /\ UNCHANGED <<sideVars, ingestVars, sr, sel, val, orgConnections>>

\* rawGet / getMetadata: client.loadCollection
MvLoad ==
    /\ call.pc = "body"
    /\ call.conn = "milvus"
    /\ call.op \in {"rawGet", "getMetadata"}
    /\ \/ call' = [Sent(call, "loadCollection") EXCEPT !.pc = "query"]
       \/ call' = OpCaught(Sent(call, "loadCollection"), "loadCollection failed")
    /\ backendCalls' = backendCalls + 1
    /\ UNCHANGED <<sideVars, ingestVars, sr, sel, val, orgConnections>>

\* rawGet / getMetadata: client.query, return the rows
MvQuery ==
    /\ call.pc = "query"
    /\ \/ \E data \in {<<>>, <<Item("row", 1)>>, <<Item("row", 1), Item("row", 2)>>} :
            call' = Finish(Sent(call, "query"),
                           OpReturned(IF call.op = "rawGet"
                                      THEN [NoOpResult EXCEPT
                                               !.list = data,
                                               !.ids = [i \in DOMAIN data |-> data[i].n]]
                                      ELSE [NoOpResult EXCEPT !.list = data]))
       \/ call' = OpCaught(Sent(call, "query"), "query failed")
    /\ backendCalls' = backendCalls + 1
    /\ UNCHANGED <<sideVars, ingestVars, sr, sel, val, orgConnections>>

\* variant: a completed delete reports success only if every id was there
MvDeleteChecked ==
    /\ call.pc = "body"
    /\ call.conn = "milvus"
    /\ call.op = "deleteVectors"
    /\ \/ /\ call' = Finish(Sent(call, "delete"),
                            OpReturned([NoOpResult EXCEPT
                                !.flag = (Range(call.ids) \subseteq collection)]))
          /\ collection' = collection \ Range(call.ids)
       \/ /\ call' = OpCaught(Sent(call, "delete"), "delete failed")
          /\ UNCHANGED collection
    /\ deleteCalls' = deleteCalls + 1
    /\ backendCalls' = backendCalls + 1
    /\ UNCHANGED <<sideVars, active, pd, dbRows, cacheFiles, nextUuid, sr, sel, val,
                   orgConnections>>

\* deleteVectors: client.delete with the filter id in [ids]
MvDelete ==
    /\ call.pc = "body"
    /\ call.conn = "milvus"
    /\ call.op = "deleteVectors"
    /\ \/ /\ call' = Finish(Sent(call, "delete"),
                            OpReturned([NoOpResult EXCEPT !.flag = TRUE]))
          /\ collection' = collection \ Range(call.ids)
       \/ /\ call' = OpCaught(Sent(call, "delete"), "delete failed")
          /\ UNCHANGED collection
    /\ deleteCalls' = deleteCalls + 1
    /\ backendCalls' = backendCalls + 1
    /\ UNCHANGED <<sideVars, active, pd, dbRows, cacheFiles, nextUuid, sr, sel, val,
                   orgConnections>>

(***************************************************************************)
(* validateNewDatabaseConnector and the per-backend validators.            *)
(***************************************************************************)
\* what the liveness probe of a validator did: resolved healthy / ready,
\* resolved not ready, or threw an error with e.message = message
NoOutcome == [kind |-> "none", message |-> NoMessage]

ProbeOk == [kind |-> "ok", message |-> NoMessage]

ProbeNotReady == [kind |-> "notReady", message |-> NoMessage]

ProbeThrew(msg) == [kind |-> "throw", message |-> msg]

\* e.message of a transport error; it may be empty
TransportMessages == {"connect ECONNREFUSED", ""}

ProbeOutcomes(type) ==
    {ProbeOk} \cup {ProbeThrew(m) : m \in TransportMessages}
    \cup (IF type = "chroma" THEN {} ELSE {ProbeNotReady})

\* the fields of settings the validators branch on: authToken and
\* authTokenHeader present or not, clusterUrl parseable by new URL() or not
ValidatorSettings ==
    [authToken : BOOLEAN, authTokenHeader : BOOLEAN, urlValid : BOOLEAN]

StatusCheck(valid, message) == [valid |-> valid, message |-> message]

\* a || b on messages
OrElse(message, default) == IF message = "" THEN default ELSE message

\* variant: a token without a header is let through
ChromaMissingHeaderNever(settings) == FALSE

\* validateChroma: if (!!authToken) { if (!authTokenHeader) return ... }
ChromaMissingHeader(settings) == settings.authToken /\ ~settings.authTokenHeader

validateChroma(settings, outcome) ==
    IF ChromaMissingHeader(settings)
    THEN StatusCheck(FALSE, "Auth token set but no request header set - set a header!")
    ELSE IF outcome.kind = "throw"
    THEN StatusCheck(FALSE,
            OrElse(outcome.message,
                   "Could not connect to Chroma instance with those credentials."))
    ELSE StatusCheck(TRUE, NoMessage)

validatePinecone(settings, outcome) ==
    IF outcome.kind = "throw"
    THEN StatusCheck(FALSE, outcome.message)
    ELSE IF outcome.kind # "ok"
    THEN StatusCheck(FALSE, "Pinecone::Index not ready or found.")
    ELSE StatusCheck(TRUE, NoMessage)

validateQDrant(settings, outcome) ==
    IF outcome.kind = "throw"
    THEN StatusCheck(FALSE, outcome.message)
    ELSE IF outcome.kind # "ok"
    THEN StatusCheck(FALSE, "qDrant::Cluster not ready or found.")
    ELSE StatusCheck(TRUE, NoMessage)

\* new URL(clusterUrl) throws inside the try for an unparseable url
validateWeaviate(settings, outcome) ==
    IF ~settings.urlValid
    THEN StatusCheck(FALSE, "Invalid URL")
    ELSE IF outcome.kind = "throw"
    THEN StatusCheck(FALSE, outcome.message)
    ELSE IF outcome.kind # "ok"
    THEN StatusCheck(FALSE, "Weaviate::Cluster not ready.")
    ELSE StatusCheck(TRUE, NoMessage)

validateMilvus(settings, outcome) ==
    IF outcome.kind = "throw"
    THEN StatusCheck(FALSE,
            OrElse(outcome.message, "Could not connect to Milvus instance."))
    ELSE IF outcome.kind # "ok"
    THEN StatusCheck(FALSE, "Milvus::Cluster is not healthy.")
    ELSE StatusCheck(TRUE, NoMessage)

\* variant: the result of the ping is not looked at
validateClickHouseAnyPing(settings, outcome) ==
    IF outcome.kind = "throw"
    THEN StatusCheck(FALSE,
            OrElse(outcome.message, "Could not connect to ClickHouse instance."))
    ELSE StatusCheck(TRUE, NoMessage)

validateClickHouse(settings, outcome) ==
    IF outcome.kind = "throw"
    THEN StatusCheck(FALSE,
            OrElse(outcome.message, "Could not connect to ClickHouse instance."))
    ELSE IF outcome.kind # "ok"
    THEN StatusCheck(FALSE, "ClickHouse::Ping failed.")
    ELSE StatusCheck(TRUE, NoMessage)

\* the if / else-if chain of validateNewDatabaseConnector
Validate(type, settings, outcome) ==
    CASE type = "chroma" -> validateChroma(settings, outcome)
      [] type = "pinecone" -> validatePinecone(settings, outcome)
      [] type = "qdrant" -> validateQDrant(settings, outcome)
      [] type = "weaviate" -> validateWeaviate(settings, outcome)
      [] type = "milvus" -> validateMilvus(settings, outcome)
      [] type = "clickhouse" -> validateClickHouse(settings, outcome)
      [] OTHER -> StatusCheck(FALSE, NoMessage)

\* the validator returns before it constructs a client
EarlyReturn(type, settings) ==
    \/ type = "chroma" /\ ChromaMissingHeader(settings)
    \/ type = "weaviate" /\ ~settings.urlValid

\* the request that is the liveness probe of each backend
ProbeOf(type) ==
    CASE type = "chroma" -> "heartbeat"
      [] type = "pinecone" -> "describeIndex"
      [] type = "qdrant" -> "clusterStatus"
      [] type = "weaviate" -> "liveChecker"
      [] type = "milvus" -> "checkHealth"
      [] type = "clickhouse" -> "ping"

NoValResult == [kind |-> "none", created |-> FALSE, error |-> NoMessage]

\* return { connector, error }; created: connector is not null
ValReturned(created, error) ==
    [kind |-> "returned", created |-> created, error |-> error]

IdleVal ==
    [pc |-> "idle", type |-> "chroma",
     settings |-> [authToken |-> FALSE, authTokenHeader |-> FALSE, urlValid |-> TRUE],
     clients |-> 0, closed |-> 0, probes |-> <<>>, outcome |-> NoOutcome,
     statusCheck |-> StatusCheck(FALSE, NoMessage), result |-> NoValResult]

\* variant: the connection is created whatever the status check says
ConcludeAlways(f, statusCheck) ==
    [f EXCEPT !.statusCheck = statusCheck, !.pc = "create"]

\* if (!statusCheck.valid) return { connector: null, error: message }
Conclude(f, statusCheck) ==
    IF ~statusCheck.valid
    THEN [f EXCEPT !.statusCheck = statusCheck, !.pc = "done",
                   !.result = ValReturned(FALSE, statusCheck.message)]
    ELSE [f EXCEPT !.statusCheck = statusCheck, !.pc = "create"]

\* validateNewDatabaseConnector up to the first await of the validator
ValEnter ==
    /\ val.pc = "start"
    /\ val' = IF val.type \notin SupportedConnectors
              THEN [val EXCEPT !.pc = "done",
                               !.result = ValReturned(FALSE,
                                            "Unsupported vector database type.")]
              ELSE IF EarlyReturn(val.type, val.settings)
              THEN Conclude(val, Validate(val.type, val.settings, NoOutcome))
              ELSE [val EXCEPT !.clients = @ + 1,
                               !.pc = IF val.type = "pinecone" THEN "init" ELSE "probe"]
    /\ UNCHANGED <<sideVars, ingestVars, backendCalls, sr, sel, call, orgConnections>>

\* validatePinecone: await client.init(...)
ValPineconeInit ==
    /\ val.pc = "init"
    /\ \/ val' = [val EXCEPT !.pc = "probe"]
       \/ \E m \in TransportMessages :
            val' = Conclude([val EXCEPT !.outcome = ProbeThrew(m)],
                            Validate(val.type, val.settings, ProbeThrew(m)))
    /\ backendCalls' = backendCalls + 1
    /\ UNCHANGED <<sideVars, ingestVars, sr, sel, call, orgConnections>>

\* the liveness probe and the rest of the validator; validateClickHouse
\* closes its client after a ping that resolved
ValProbe ==
    /\ val.pc = "probe"
    /\ \E outcome \in ProbeOutcomes(val.type) :
        val' = Conclude([val EXCEPT
                            !.probes = Append(@, ProbeOf(val.type)),
                            !.outcome = outcome,
                            !.closed = IF val.type = "clickhouse"
                                          /\ outcome.kind # "throw"
                                       THEN @ + 1 ELSE @],
                        Validate(val.type, val.settings, outcome))
    /\ backendCalls' = backendCalls + 1
    /\ UNCHANGED <<sideVars, ingestVars, sr, sel, call, orgConnections>>

\* await OrganizationConnection.create(organization.id, type, settings)
ValCreate ==
    /\ val.pc = "create"
    /\ \/ /\ orgConnections' = Append(orgConnections,
                                    [type |-> val.type, settings |-> val.settings])
          /\ val' = [val EXCEPT !.pc = "done", !.result = ValReturned(TRUE, NoMessage)]
       \/ /\ val' = [val EXCEPT !.pc = "done",
                                !.result = [NoValResult EXCEPT
                                               !.kind = "thrown",
                                               !.error = "create failed"]]
          /\ UNCHANGED orgConnections
    /\ UNCHANGED <<sideVars, ingestVars, backendCalls, sr, sel, call>>

(***************************************************************************)
(* The NATS logger (utils/logger/nats.js and the worker logger): the       *)
(* module variables nc, js, connected, and the calls of init, close and    *)
(* publishLog.  A connection is its index in lg.conns; 0 stands for null.  *)
(***************************************************************************)
\* variant "backend" is utils/logger/nats.js, "worker" the workers' logger
LoggerVariants == {"backend", "worker"}

IdleLogger ==
    [pc |-> "idle", variant |-> "backend", natsUrl |-> TRUE,
     nc |-> 0, js |-> 0, connected |-> FALSE,
     conns |-> <<>>, attempts |-> 0, connecting |-> 0, draining |-> {},
     closeThrew |-> FALSE, calls |-> <<>>]

\* a connection just returned by connect(); watched: nc.closed().then(...)
\* was registered on it
NewConn(l) == [status |-> "open", watched |-> (l.variant = "backend")]

\* try block of initNatsLogger after the await of connect resolved
InitConnected(l) ==
    [l EXCEPT !.conns = Append(@, NewConn(l)),
              !.nc = Len(l.conns) + 1,
              !.js = Len(l.conns) + 1,
              !.connected = TRUE,
              !.connecting = @ - 1]

\* catch block of initNatsLogger
InitFailed(l) ==
    [l EXCEPT !.connected = IF l.variant = "backend" THEN FALSE ELSE @,
              !.connecting = @ - 1]

\* connection c closes; the handler registered on it, if any, runs
ConnClosed(l, c) ==
    [l EXCEPT !.conns[c].status = "closed",
              !.connected = IF l.conns[c].watched THEN FALSE ELSE @]

\* closeNatsLogger after the await of nc.drain()
AfterDrain(l) == [l EXCEPT !.nc = 0, !.js = 0, !.connected = FALSE]

\* initNatsLogger up to the await of connect
LgInit ==
    /\ lg.pc = "running"
    /\ lg.attempts < MaxConns
    /\ lg' = [lg EXCEPT !.attempts = @ + 1,
                        !.connecting = IF lg.natsUrl THEN @ + 1 ELSE @]
    /\ UNCHANGED <<opsVars, ingestVars, backendCalls, sr, sel, auth>>

\* connect({ servers }) resolved
LgConnected ==
    /\ lg.connecting > 0
    /\ lg' = InitConnected(lg)
    /\ UNCHANGED <<opsVars, ingestVars, backendCalls, sr, sel, auth>>

\* connect({ servers }) rejected
LgConnectFailed ==
    /\ lg.connecting > 0
    /\ lg' = InitFailed(lg)
    /\ UNCHANGED <<opsVars, ingestVars, backendCalls, sr, sel, auth>>

\* an open connection is closed by the server or the network
LgConnClosed ==
    /\ \E c \in DOMAIN lg.conns :
        /\ lg.conns[c].status = "open"
        /\ lg' = ConnClosed(lg, c)
    /\ UNCHANGED <<opsVars, ingestVars, backendCalls, sr, sel, auth>>

\* closeNatsLogger: if (nc) nc.drain() is called
LgClose ==
    /\ lg.pc = "running"
    /\ lg.nc # 0
    /\ lg.nc \notin lg.draining
    /\ lg' = [lg EXCEPT !.draining = @ \cup {lg.nc}]
    /\ UNCHANGED <<opsVars, ingestVars, backendCalls, sr, sel, auth>>

\* the drain of connection c settles: it closes the connection and the call
\* of closeNatsLogger goes on; on a connection that has closed meanwhile the
\* drain may also reject, which leaves closeNatsLogger
LgDrained ==
    /\ \E c \in lg.draining :
        LET l == [lg EXCEPT !.draining = @ \ {c}]
        IN  IF lg.conns[c].status = "open"
            THEN lg' = AfterDrain(ConnClosed(l, c))
            ELSE \/ lg' = AfterDrain(l)
                 \/ lg' = [l EXCEPT !.closeThrew = TRUE]
    /\ UNCHANGED <<opsVars, ingestVars, backendCalls, sr, sel, auth>>

\* publishLog up to the await of js.publish: the console line, then
\* if (connected && js)
StartLog(l) ==
    [connected |-> l.connected, js |-> l.js, console |-> TRUE,
     sent |-> (l.connected /\ l.js # 0),
     outcome |-> IF l.connected /\ l.js # 0 THEN "pending" ELSE "none",
     kind |-> IF l.connected /\ l.js # 0 THEN "pending" ELSE "returned"]

\* variant: the rejection of js.publish leaves publishLog
PublishFailedRethrow(c) == [c EXCEPT !.outcome = "rejected", !.kind = "thrown"]

\* catch (err) of publishLog: a console.error line, nothing else
PublishFailed(c) == [c EXCEPT !.outcome = "rejected", !.kind = "returned"]

PublishDone(c) == [c EXCEPT !.outcome = "resolved", !.kind = "returned"]

LgPublishLog ==
    /\ lg.pc = "running"
    /\ Len(lg.calls) < MaxLogs
    /\ lg' = [lg EXCEPT !.calls = Append(@, StartLog(lg))]
    /\ UNCHANGED <<opsVars, ingestVars, backendCalls, sr, sel, auth>>

\* js.publish settles: it can resolve only on an open connection
LgPublished ==
    /\ \E i \in DOMAIN lg.calls :
        /\ lg.calls[i].outcome = "pending"
        /\ \/ /\ lg.conns[lg.calls[i].js].status = "open"
              /\ lg' = [lg EXCEPT !.calls[i] = PublishDone(@)]
           \/ lg' = [lg EXCEPT !.calls[i] = PublishFailed(@)]
    /\ UNCHANGED <<opsVars, ingestVars, backendCalls, sr, sel, auth>>

(***************************************************************************)
(* POST /auth/transfer-root.  The users table is a set of rows; the User   *)
(* model answers from it.                                                  *)
(***************************************************************************)
Requests == 1..MaxRequests

Emails == {"", "a@x.io", "b@x.io"}

Passwords == {"", "pw"}

UserRow(email, role) == [email |-> email, role |-> role]

\* User.count({ role })
UserCount(users, role) == Cardinality({u \in users : u.role = role})

\* !!(await User.get({ email }))
UserExists(users, email) == \E u \in users : u.email = email

IdleRequest ==
    [pc |-> "idle", email |-> "", password |-> "", adminsAtStart |-> 0,
     adminsAtCreate |-> 0, created |-> FALSE, status |-> 0, valid |-> FALSE,
     message |-> NoMessage]

IdleAuth == [pc |-> "idle", users |-> {}, reqs |-> [r \in Requests |-> IdleRequest]]

\* response.status(200).json({ user: null, valid: false, token: null, message })
Refused(q, message) ==
    [q EXCEPT !.pc = "done", !.status = 200, !.valid = FALSE, !.message = message]

\* if (adminCount > 0)
AdminExists(adminCount) == adminCount > 0

SetRequest(r, q) == auth' = [auth EXCEPT !.reqs[r] = q]

\* the request arrives: reqBody, the check of email and password
AuthStart(r) ==
    /\ auth.pc = "running"
    /\ auth.reqs[r].pc = "idle"
    /\ \E email \in Emails, password \in Passwords :
        LET q == [auth.reqs[r] EXCEPT
                    !.email = email, !.password = password,
                    !.adminsAtStart = UserCount(auth.users, "admin")]
        IN  SetRequest(r, IF email = "" \/ password = ""
                          THEN Refused(q, "[002] No email or password provided.")
                          ELSE [q EXCEPT !.pc = "count"])
    /\ UNCHANGED <<opsVars, ingestVars, backendCalls, sr, sel, lg>>

\* await User.count({ role: "admin" })
AuthCount(r) ==
    /\ auth.reqs[r].pc = "count"
    /\ SetRequest(r, IF AdminExists(UserCount(auth.users, "admin"))
                     THEN Refused(auth.reqs[r],
                            "[000] System setup has already been completed - you cannot do this again.")
                     ELSE [auth.reqs[r] EXCEPT !.pc = "get"])
    /\ UNCHANGED <<opsVars, ingestVars, backendCalls, sr, sel, lg>>

\* await User.get({ email })
AuthGet(r) ==
    /\ auth.reqs[r].pc = "get"
    /\ SetRequest(r, IF UserExists(auth.users, auth.reqs[r].email)
                     THEN Refused(auth.reqs[r],
                            "[001] Account already exists by this email - use another.")
                     ELSE [auth.reqs[r] EXCEPT !.pc = "create"])
    /\ UNCHANGED <<opsVars, ingestVars, backendCalls, sr, sel, lg>>

\* await User.create({ email, password, role: "admin" }) and the response
AuthCreate(r) ==
    /\ auth.reqs[r].pc = "create"
    /\ \/ /\ ~UserExists(auth.users, auth.reqs[r].email)
          /\ auth' = [auth EXCEPT
                !.users = @ \cup {UserRow(auth.reqs[r].email, "admin")},
                !.reqs[r] = [@ EXCEPT
                    !.pc = "done", !.status = 200, !.valid = TRUE,
                    !.created = TRUE,
                    !.adminsAtCreate = UserCount(auth.users, "admin")]]
       \/ SetRequest(r, Refused(auth.reqs[r], "User.create failed"))
    /\ UNCHANGED <<opsVars, ingestVars, backendCalls, sr, sel, lg>>

\* one of the awaits rejects: catch (e) { response.sendStatus(500) }
AuthError(r) ==
    /\ auth.reqs[r].pc \in {"count", "get", "create"}
    /\ SetRequest(r, [auth.reqs[r] EXCEPT !.pc = "done", !.status = 500])
    /\ UNCHANGED <<opsVars, ingestVars, backendCalls, sr, sel, lg>>

IdleSide ==
    /\ lg = IdleLogger
    /\ auth = IdleAuth

IdleOps ==
    /\ call = IdleCall
    /\ val = IdleVal
    /\ orgConnections = <<>>
    /\ IdleSide

(***************************************************************************)
(* processDocument, one action per await.                                  *)
(***************************************************************************)
SetFrame(p, f) == pd' = [pd EXCEPT ![p] = f]

\* what openai.embedTextChunks may resolve to: null, or a list of embeddings
\* (of any length, the provider is not bound to the number of chunks)
EmbedReplies(p) ==
    {[isNull |-> TRUE, list |-> <<>>]} \cup
    {[isNull |-> FALSE, list |-> [i \in 1..m |-> Embedding(p, i)]] : m \in 0..MaxChunks}

\* textSplitter.splitText(pageContent)
Split(p) ==
    /\ pd[p].pc = "start"
    /\ pd[p].connector.name = "milvus"
    /\ \/ \E n \in 0..MaxChunks :
            SetFrame(p, Logged([pd[p] EXCEPT
                                   !.pc = "embed",
                                   !.textChunks = [i \in 1..n |-> ChunkText(p, i)]],
                               "split", Resolved))
       \/ SetFrame(p, Logged(Caught(pd[p], "splitText failed"),
                             "split", Rejected("splitText failed")))
    /\ UNCHANGED backendCalls
    /\ UNCHANGED <<sideVars, opsVars, sr, sel, active, collection, dbRows, cacheFiles, nextUuid, deleteCalls>>

\* openai.embedTextChunks(textChunks), then the if/else on its value
Embed(p) ==
    /\ pd[p].pc = "embed"
    /\ \/ \E vv \in EmbedReplies(p) :
            LET f == Logged([pd[p] EXCEPT !.vectorValues = vv], "embed", Resolved)
            IN  IF HasEmbeddings(vv)
                THEN /\ SetFrame(p, [BuildRecords(f, p, nextUuid) EXCEPT !.pc = "connect"])
                     /\ nextUuid' = nextUuid + Len(vv.list)
                ELSE /\ SetFrame(p, NoEmbeddings(f))
                     /\ UNCHANGED nextUuid
       \/ /\ SetFrame(p, Logged(Caught(pd[p], "embedTextChunks failed"),
                                "embed", Rejected("embedTextChunks failed")))
          /\ UNCHANGED nextUuid
    /\ UNCHANGED backendCalls
    /\ UNCHANGED <<sideVars, opsVars, sr, sel, active, collection, dbRows, cacheFiles, deleteCalls>>

\* this.connect()
Connect(p) ==
    /\ pd[p].pc = "connect"
    /\ \E probe \in HealthProbes :
        LET r == MilvusConnect(pd[p].connector.config, probe)
            f == Logged(pd[p], "connect", r)
        IN  SetFrame(p, IF r.ok THEN [f EXCEPT !.pc = "load"] ELSE Caught(f, r.message))
    /\ backendCalls' = backendCalls + ConnectCalls(pd[p].connector.config)
    /\ UNCHANGED <<sideVars, opsVars, sr, sel, active, collection, dbRows, cacheFiles, nextUuid, deleteCalls>>

\* client.loadCollection({ collection_name })
Load(p) ==
    /\ pd[p].pc = "load"
    /\ \/ SetFrame(p, AfterLoad(Logged(pd[p], "load", Resolved)))
       \/ SetFrame(p, Logged(Caught(pd[p], "loadCollection failed"),
                             "load", Rejected("loadCollection failed")))
    /\ backendCalls' = backendCalls + 1
    /\ UNCHANGED <<sideVars, opsVars, sr, sel, active, collection, dbRows, cacheFiles, nextUuid, deleteCalls>>

\* one iteration of: for (const chunk of toChunks(vectors, 500)), up to the
\* call of client.insert
IssueInsert(p) ==
    /\ pd[p].pc = "insert"
    /\ pd[p].batch < Len(toChunks(pd[p].vectors, BatchSize))
    /\ SetFrame(p, Issue(pd[p]))
    /\ backendCalls' = backendCalls + 1
    /\ UNCHANGED <<sideVars, opsVars, sr, sel, active, collection, dbRows, cacheFiles, nextUuid, deleteCalls>>

\* variant: the first rejected insert is issued again
InsertBatchRetry(p) ==
    /\ pd[p].pc = "inserting"
    /\ pd[p].batch < Len(toChunks(pd[p].vectors, BatchSize))
    /\ \/ /\ collection' = collection \cup
                {v.id : v \in Range(toChunks(pd[p].vectors, BatchSize)[pd[p].batch + 1])}
          /\ SetFrame(p, AfterInsert(Logged(Settled(pd[p]), "insert", Resolved)))
       \/ /\ SetFrame(p, IF \E i \in DOMAIN pd[p].log : ~pd[p].log[i].ok
                          THEN InsertFailed(Logged(Settled(pd[p]), "insert",
                                                   Rejected("insert failed")),
                                            "insert failed")
                          ELSE [Logged(Settled(pd[p]), "insert",
                                       Rejected("insert failed")) EXCEPT
                                   !.pc = "insert"])
          /\ UNCHANGED collection
    /\ UNCHANGED backendCalls
    /\ UNCHANGED <<sideVars, opsVars, sr, sel, active, dbRows, cacheFiles, nextUuid, deleteCalls>>

\* the await of client.insert: the batch is in the collection, or the
\* rejection leaves the loop
InsertBatch(p) ==
    /\ pd[p].pc = "inserting"
    /\ pd[p].batch < Len(toChunks(pd[p].vectors, BatchSize))
    /\ \/ /\ collection' = collection \cup
                {v.id : v \in Range(toChunks(pd[p].vectors, BatchSize)[pd[p].batch + 1])}
          /\ SetFrame(p, AfterInsert(Logged(Settled(pd[p]), "insert", Resolved)))
       \/ /\ SetFrame(p, InsertFailed(Logged(Settled(pd[p]), "insert",
                                             Rejected("insert failed")),
                                      "insert failed"))
          /\ UNCHANGED collection
    /\ UNCHANGED backendCalls
    /\ UNCHANGED <<sideVars, opsVars, sr, sel, active, dbRows, cacheFiles, nextUuid, deleteCalls>>

\* DocumentVectors.createMany(documentVectors)
CreateMany(p) ==
    /\ pd[p].pc = "createMany"
    /\ \/ /\ dbRows' = dbRows \o pd[p].documentVectors
          /\ SetFrame(p, [Logged(pd[p], "createMany", Resolved) EXCEPT !.pc = "store"])
       \/ /\ SetFrame(p, Logged(Caught(pd[p], "createMany failed"),
                                "createMany", Rejected("createMany failed")))
          /\ UNCHANGED dbRows
    /\ UNCHANGED backendCalls
    /\ UNCHANGED <<sideVars, opsVars, sr, sel, active, collection, cacheFiles, nextUuid, deleteCalls>>

\* storeVectorResult(cacheInfo, vectorFilename(dbDocument)); return success
Store(p) ==
    /\ pd[p].pc = "store"
    /\ \/ /\ cacheFiles' = [cacheFiles EXCEPT ![DbDocument(p).id] =
                                [written |-> TRUE, entries |-> pd[p].cacheInfo]]
          /\ SetFrame(p, [Logged(pd[p], "store", Resolved) EXCEPT
                             !.pc = "done", !.result = Returned(TRUE, NoMessage)])
       \/ /\ SetFrame(p, Logged(Caught(pd[p], "storeVectorResult failed"),
                                "store", Rejected("storeVectorResult failed")))
          /\ UNCHANGED cacheFiles
    /\ UNCHANGED backendCalls
    /\ UNCHANGED <<sideVars, opsVars, sr, sel, active, collection, dbRows, nextUuid, deleteCalls>>

\* ClickHouse.processDocument: a stub that reports failure
ClickHouseProcessDocument(p) ==
    /\ pd[p].pc = "start"
    /\ pd[p].connector.name = "clickhouse"
    /\ SetFrame(p, [pd[p] EXCEPT
            !.pc = "done",
            !.result = Returned(FALSE,
                "ClickHouse is not a vector database - document processing not supported")])
    /\ UNCHANGED backendCalls
    /\ UNCHANGED <<sideVars, opsVars, sr, sel, active, collection, dbRows, cacheFiles, nextUuid, deleteCalls>>

(***************************************************************************)
(* Ingestion of one document by one invocation.                            *)
(***************************************************************************)
NoCacheFile == [written |-> FALSE, entries |-> <<>>]

InitStores ==
    /\ collection = {}
    /\ dbRows = <<>>
    /\ cacheFiles = [d \in {DocOf(p) : p \in Invocations} |-> NoCacheFile]
    /\ nextUuid = 0
    /\ deleteCalls = 0
    /\ backendCalls = 0

InitIngest ==
    /\ IdleOps
    /\ sr = IdleQuery
    /\ sel = IdleSelect
    /\ active = {1}
    /\ \E name \in ConnectorNames, type \in ConfigTypes :
        pd = [p \in Invocations |->
                IF p \in active THEN StartFrame(name, type) ELSE IdleFrame]
    /\ InitStores

NextIngest ==
    \/ \E p \in active : Split(p)
    \/ \E p \in active : Embed(p)
    \/ \E p \in active : Connect(p)
    \/ \E p \in active : Load(p)
    \/ \E p \in active : IssueInsert(p)
    \/ \E p \in active : InsertBatch(p)
    \/ \E p \in active : CreateMany(p)
    \/ \E p \in active : Store(p)
    \/ \E p \in active : ClickHouseProcessDocument(p)

SpecIngest == InitIngest /\ [][NextIngest]_vars

(***************************************************************************)
(* One similarity query.                                                   *)
(***************************************************************************)
InitQuery ==
    /\ IdleOps
    /\ sel = IdleSelect
    /\ active = {}
    /\ pd = [p \in Invocations |-> IdleFrame]
    /\ InitStores
    /\ \E name \in ConnectorNames, type \in ConfigTypes, k \in TopKArgs :
        sr = [IdleQuery EXCEPT !.pc = "start",
                               !.connector = [name |-> name, config |-> [type |-> type]],
                               !.topK = k]

NextQuery == SimilarityResponse

SpecQuery == InitQuery /\ [][NextQuery]_vars

(***************************************************************************)
(* One connector selection.                                                *)
(***************************************************************************)
InitFactory ==
    /\ IdleOps
    /\ active = {}
    /\ pd = [p \in Invocations |-> IdleFrame]
    /\ InitStores
    /\ sr = IdleQuery
    /\ \E oc \in OrganizationConnectors :
        sel = [IdleSelect EXCEPT !.pc = "start", !.organizationConnector = oc]

NextFactory == SelectConnector

SpecFactory == InitFactory /\ [][NextFactory]_vars

(***************************************************************************)
(* One call of a connector operation (similarityResponse included).        *)
(***************************************************************************)
ReadOps ==
    {"heartbeat", "totalIndicies", "namespaces", "rawGet", "getMetadata"}

OpsOf(conn) ==
    ReadOps \cup {"namespace", "namespaceExists", "deleteVectors", "connect"}
    \cup (IF conn = "clickhouse" THEN {"executeQuery"} ELSE {})

\* the name argument: omitted / empty, or a namespace
NamesOf(op) == IF op \in {"namespace", "namespaceExists"} THEN {"", "a"} ELSE {"a"}

\* the ids argument: ids the backend holds (1, 2) and one it does not (9)
IdsOf(op) ==
    IF op \in {"getMetadata", "deleteVectors"}
    THEN {<<>>, <<1>>, <<1, 9>>, <<9>>}
    ELSE {<<>>}

InitBackend ==
    /\ collection = {1, 2}
    /\ dbRows = <<>>
    /\ cacheFiles = [d \in {DocOf(p) : p \in Invocations} |-> NoCacheFile]
    /\ nextUuid = 0
    /\ deleteCalls = 0
    /\ backendCalls = 0

InitOps ==
    /\ active = {}
    /\ pd = [p \in Invocations |-> IdleFrame]
    /\ InitBackend
    /\ IdleSide
    /\ sel = IdleSelect
    /\ val = IdleVal
    /\ orgConnections = <<>>
    /\ \/ /\ sr = IdleQuery
          /\ \E conn \in ConnectorNames, type \in ConfigTypes :
             \E op \in OpsOf(conn) :
             \E name \in NamesOf(op), ids \in IdsOf(op) :
                call = [IdleCall EXCEPT !.pc = "start", !.conn = conn, !.type = type,
                                        !.op = op, !.name = name, !.ids = ids]
       \/ /\ call = IdleCall
          /\ \E name \in ConnectorNames, type \in ConfigTypes, k \in TopKArgs :
                sr = [IdleQuery EXCEPT
                        !.pc = "start",
                        !.connector = [name |-> name, config |-> [type |-> type]],
                        !.topK = k]

NextOps ==
    \/ OpEnter
    \/ ChConnect
    \/ ChHeartbeat
    \/ ChQuery
    \/ ChNamespaceTable
    \/ ChNamespaceColumns
    \/ ChDelete
    \/ MvConnect
    \/ MvHeartbeat
    \/ MvList
    \/ MvTotalStats
    \/ MvNamespacesStats
    \/ MvNamespacesDescribe
    \/ MvNamespaceDescribe
    \/ MvNamespaceStats
    \/ MvHasCollection
    \/ MvLoad
    \/ MvQuery
    \/ MvDelete
    \/ SrConnect
    \/ SrLoad
    \/ SrSearch
    \/ ClickHouseSimilarityResponse

SpecOps == InitOps /\ [][NextOps]_vars

(***************************************************************************)
(* One call of validateNewDatabaseConnector.                               *)
(***************************************************************************)
\* config.type as sent by a caller
ValidatorTypes == SupportedConnectors \cup {"redis", ""}

InitValidate ==
    /\ IdleSide
    /\ active = {}
    /\ pd = [p \in Invocations |-> IdleFrame]
    /\ InitStores
    /\ sr = IdleQuery
    /\ sel = IdleSelect
    /\ call = IdleCall
    /\ orgConnections = <<>>
    /\ \E type \in ValidatorTypes, settings \in ValidatorSettings :
        val = [IdleVal EXCEPT !.pc = "start", !.type = type, !.settings = settings]

NextValidate ==
    \/ ValEnter
    \/ ValPineconeInit
    \/ ValProbe
    \/ ValCreate

SpecValidate == InitValidate /\ [][NextValidate]_vars

(***************************************************************************)
(* One call of any connector operation, processDocument included.          *)
(***************************************************************************)
InitConnector == InitIngest \/ InitOps

NextConnector == NextIngest \/ NextOps

SpecConnector == InitConnector /\ [][NextConnector]_vars

(***************************************************************************)
(* Two processDocument invocations, of two documents, into one namespace.  *)
(***************************************************************************)
InitConcurrent ==
    /\ IdleOps
    /\ sr = IdleQuery
    /\ sel = IdleSelect
    /\ active = Invocations
    /\ pd = [p \in Invocations |-> StartFrame("milvus", "milvus")]
    /\ InitStores

NextConcurrent ==
    \/ \E p \in active : Split(p)
    \/ \E p \in active : Embed(p)
    \/ \E p \in active : Connect(p)
    \/ \E p \in active : Load(p)
    \/ \E p \in active : IssueInsert(p)
    \/ \E p \in active : InsertBatch(p)
    \/ \E p \in active : CreateMany(p)
    \/ \E p \in active : Store(p)

SpecConcurrent == InitConcurrent /\ [][NextConcurrent]_vars

(***************************************************************************)
(* The logger under any interleaving of init, close, publishLog and the    *)
(* closing of connections.                                                 *)
(***************************************************************************)
InitLogger ==
    /\ val = IdleVal
    /\ orgConnections = <<>>
    /\ active = {}
    /\ pd = [p \in Invocations |-> IdleFrame]
    /\ InitStores
    /\ sr = IdleQuery
    /\ sel = IdleSelect
    /\ call = IdleCall
    /\ auth = IdleAuth
    /\ \E variant \in LoggerVariants, natsUrl \in BOOLEAN :
        lg = [IdleLogger EXCEPT !.pc = "running", !.variant = variant,
                                !.natsUrl = natsUrl]

NextLogger ==
    \/ LgInit
    \/ LgConnected
    \/ LgConnectFailed
    \/ LgConnClosed
    \/ LgClose
    \/ LgDrained
    \/ LgPublishLog
    \/ LgPublished

SpecLogger == InitLogger /\ [][NextLogger]_vars

(***************************************************************************)
(* Concurrent /auth/transfer-root requests.                                *)
(***************************************************************************)
\* the users before the first request: none, or the root user of a fresh
\* installation
InitAuth ==
    /\ val = IdleVal
    /\ orgConnections = <<>>
    /\ call = IdleCall
    /\ active = {}
    /\ pd = [p \in Invocations |-> IdleFrame]
    /\ InitStores
    /\ sr = IdleQuery
    /\ sel = IdleSelect
    /\ lg = IdleLogger
    /\ \E users \in {{}, {UserRow("root@x.io", "root")}} :
        auth = [IdleAuth EXCEPT !.pc = "running", !.users = users]

NextAuth ==
    \/ \E r \in Requests : AuthStart(r)
    \/ \E r \in Requests : AuthCount(r)
    \/ \E r \in Requests : AuthGet(r)
    \/ \E r \in Requests : AuthCreate(r)
    \/ \E r \in Requests : AuthError(r)

SpecAuth == InitAuth /\ [][NextAuth]_vars

(***************************************************************************)
(* Properties of processDocument.                                          *)
(***************************************************************************)
Has(f, op, ok) == \E i \in DOMAIN f.log : f.log[i].op = op /\ f.log[i].ok = ok

Issued(f, op) == Has(f, op, TRUE) \/ Has(f, op, FALSE)

Count(f, op, ok) ==
    Cardinality({i \in DOMAIN f.log : f.log[i].op = op /\ f.log[i].ok = ok})

RowsOf(id) == {i \in DOMAIN dbRows : dbRows[i].vectorId = id}

RowsOfDoc(d) == {i \in DOMAIN dbRows : dbRows[i].docId = d}

NumBatches(f) == Len(toChunks(f.vectors, BatchSize))

\* ids of the records of the first k batches of f
IdsOfBatches(f, k) ==
    {f.vectors[i].id : i \in 1..Min(k * BatchSize, Len(f.vectors))}

EmptyEmbedding(f) ==
    /\ Has(f, "embed", TRUE)
    /\ f.vectorValues.isNull \/ Len(f.vectorValues.list) = 0

\* C1: when the embedding provider returns null or an empty list,
\* processDocument returns success=false and has mutated nothing: no connect,
\* no insert, no DocumentVectors row, no cache artifact.
C1_EmptyEmbeddingNoMutation ==
    \A p \in active :
        EmptyEmbedding(pd[p]) =>
            /\ pd[p].pc = "done"
            /\ pd[p].result.kind = "returned"
            /\ ~pd[p].result.success
            /\ \A op \in {"connect", "load", "insert", "createMany", "store"} :
                    ~Issued(pd[p], op)
            /\ RowsOfDoc(DocOf(p)) = {}
            /\ ~cacheFiles[DbDocument(p).id].written
            /\ active = {p} => collection = {} /\ dbRows = <<>> /\ backendCalls = 0

C1_Witness ==
    \E p \in active :
        /\ EmptyEmbedding(pd[p])
        /\ ~pd[p].vectorValues.isNull
        /\ Len(pd[p].textChunks) > 0
        /\ pd[p].pc = "done"

\* C2 (as claimed): once a processDocument call has ended, every VectorRecord
\* held by the backend has exactly one DocumentVectors row.
C2_EveryInsertedVectorMapped ==
    \A p \in active :
        pd[p].pc = "done" =>
            \A id \in collection : Cardinality(RowsOf(id)) = 1

\* C3: in every state, each DocumentVectors row and each cache entry names a
\* vector the backend holds, and createMany / storeVectorResult are issued
\* only after every insert batch has resolved.
C3_MappingOnlyAfterInserts ==
    /\ \A i \in DOMAIN dbRows : dbRows[i].vectorId \in collection
    /\ \A d \in DOMAIN cacheFiles :
            \A e \in Range(cacheFiles[d].entries) : e.vectorDbId \in collection
    /\ \A p \in active :
            (Issued(pd[p], "createMany") \/ Issued(pd[p], "store")) =>
                /\ Count(pd[p], "insert", TRUE) = NumBatches(pd[p])
                /\ ~Has(pd[p], "insert", FALSE)
                /\ IdsOfBatches(pd[p], NumBatches(pd[p])) \subseteq collection

C3_Witness ==
    \E p \in active :
        /\ NumBatches(pd[p]) >= 2
        /\ RowsOfDoc(DocOf(p)) # {}
        /\ cacheFiles[DbDocument(p).id].written

AllStepsCompleted(f) ==
    /\ f.connector.name = "milvus"
    /\ \A i \in DOMAIN f.log : f.log[i].ok
    /\ \A op \in {"split", "embed", "connect", "load", "createMany", "store"} :
            Count(f, op, TRUE) = 1
    /\ Count(f, "insert", TRUE) = NumBatches(f)

\* C4: processDocument never throws; it returns {success:true, message:null}
\* only when every step completed, and {success:false, message:<cause>} when
\* a step raised an exception.
C4_NeverThrows ==
    \A p \in active :
        /\ pd[p].result.kind # "thrown"
        /\ pd[p].pc = "done" =>
            /\ pd[p].result.kind = "returned"
            /\ pd[p].result.success =>
                    pd[p].result.message = NoMessage /\ AllStepsCompleted(pd[p])
            /\ \A i \in DOMAIN pd[p].log :
                    ~pd[p].log[i].ok =>
                        /\ ~pd[p].result.success
                        /\ pd[p].result.message = pd[p].log[i].message

C4_Witness ==
    \E p \in active :
        /\ pd[p].pc = "done"
        /\ Has(pd[p], "createMany", TRUE)
        /\ Has(pd[p], "store", FALSE)
        /\ pd[p].result = Returned(FALSE, "storeVectorResult failed")

\* C5: when insert batch k of n rejects, the call returns one success=false
\* result, the records of batches 1..k-1 stay in the backend, no delete is
\* issued, no batch after k is attempted, and neither a DocumentVectors row
\* nor the cache artifact is written.
C5_BatchFailure ==
    \A p \in active :
        LET f == pd[p]
            k == Count(f, "insert", TRUE) + 1
        IN  (f.pc = "done" /\ Has(f, "insert", FALSE)) =>
                /\ f.result.kind = "returned"
                /\ ~f.result.success
                /\ Count(f, "insert", FALSE) = 1
                /\ f.log[Len(f.log)] = Event("insert", Rejected("insert failed"))
                /\ k <= NumBatches(f)
                /\ IdsOfBatches(f, k - 1) \subseteq collection
                /\ active = {p} => collection = IdsOfBatches(f, k - 1)
                /\ deleteCalls = 0
                /\ ~Issued(f, "createMany")
                /\ ~Issued(f, "store")
                /\ RowsOfDoc(DocOf(p)) = {}
                /\ ~cacheFiles[DbDocument(p).id].written

C5_Witness ==
    \E p \in active :
        /\ pd[p].pc = "done"
        /\ Has(pd[p], "insert", FALSE)
        /\ Count(pd[p], "insert", TRUE) = 1
        /\ NumBatches(pd[p]) = 3
        /\ collection = IdsOfBatches(pd[p], 1)

\* C6 (as claimed): on success the numbers of inserted records, mapping rows
\* and cache entries all equal the number of text chunks, and a provider that
\* returns vectors for only some of the chunks causes no insert.
C6_OnePerChunk ==
    \A p \in active :
        LET f == pd[p]
        IN  /\ (f.pc = "done" /\ f.result.success) =>
                /\ Cardinality(IdsOfBatches(f, NumBatches(f)) \cap collection)
                        = Len(f.textChunks)
                /\ Cardinality(RowsOfDoc(DocOf(p))) = Len(f.textChunks)
                /\ Len(cacheFiles[DbDocument(p).id].entries) = Len(f.textChunks)
            /\ ( /\ Has(f, "embed", TRUE)
                 /\ ~f.vectorValues.isNull
                 /\ Len(f.vectorValues.list) > 0
                 /\ Len(f.vectorValues.list) < Len(f.textChunks) ) =>
                    ~Issued(f, "insert")

(***************************************************************************)
(* Properties of similarityResponse and distanceToScore.                   *)
(***************************************************************************)
ResponseLengths(r) ==
    {Len(r.vectorIds), Len(r.contextTexts), Len(r.sourceDocuments), Len(r.scores)}

\* C7 (as claimed): similarityResponse never returns more than topK hits,
\* whatever the backend replies.
C7_AtMostTopK ==
    sr.pc = "done" => \A n \in ResponseLengths(sr.response) : n <= TopKOf(sr.topK)

\* C8: in every result of similarityResponse the four arrays have the same
\* length, and index i of each describes the i-th hit of the backend reply;
\* a failed call returns four empty arrays.
C8_ParallelArrays ==
    sr.pc = "done" =>
        /\ sr.kind = "returned"
        /\ Cardinality(ResponseLengths(sr.response)) = 1
        /\ Len(sr.response.vectorIds) = Len(sr.results)
        /\ ~sr.searched => sr.response = EmptyResponse
        /\ \A i \in DOMAIN sr.results :
            LET hit == sr.results[i]
            IN  /\ sr.response.vectorIds[i] = hit.id
                /\ sr.response.contextTexts[i] =
                        (IF hit.text = Undefined THEN "" ELSE hit.text)
                /\ sr.response.scores[i] = distanceToScore(hit.score)
                /\ sr.response.sourceDocuments[i] =
                        (CASE hit.metadata.kind = "absent" -> EmptyObject
                           [] hit.metadata.kind = "json" -> hit.metadata.value
                           [] OTHER -> [title |-> Undefined, text |-> hit.text])

C8_Witness ==
    /\ sr.pc = "done"
    /\ Len(sr.results) = 2
    /\ sr.results[1].metadata.kind = "garbage"
    /\ sr.results[2].metadata.kind = "json"
    /\ Len(sr.response.sourceDocuments) = 2

InUnitInterval(score) == score.t = "number" /\ 0 <= score.v /\ score.v <= One

\* C9 (as claimed): a number >= 1.0 maps to 1, a number <= 0 maps to 0, a
\* number strictly between is returned unchanged, a null or non-numeric value
\* maps to 0; every score of a similarityResponse result lies in [0,1].
C9_ScoreNormalized ==
    sr.pc = "done" =>
        \A i \in DOMAIN sr.response.scores :
            LET raw == sr.results[i].score
                score == sr.response.scores[i]
            IN  /\ InUnitInterval(score)
                /\ (raw.t = "number" /\ raw.v >= One) => score = Num(One)
                /\ (raw.t = "number" /\ raw.v <= 0) => score = Num(0)
                /\ (raw.t = "number" /\ 0 < raw.v /\ raw.v < One) => score = raw
                /\ raw.t # "number" => score = Num(0)

(***************************************************************************)
(* Properties of selectConnector.                                          *)
(***************************************************************************)
ClassOfType(type) ==
    CASE type = "chroma" -> "Chroma"
      [] type = "pinecone" -> "Pinecone"
      [] type = "qdrant" -> "QDrant"
      [] type = "weaviate" -> "Weaviate"
      [] type = "milvus" -> "Milvus"
      [] type = "clickhouse" -> "ClickHouse"
      [] OTHER -> "none"

\* C10: selectConnector returns a connector of the backend named by the type
\* for each of the six supported types, throws the unsupported-connector
\* error for every other type, and touches neither a backend nor a store.
C10_SelectConnector ==
    sel.pc = "done" =>
        LET type == sel.organizationConnector.type
            r == sel.result
        IN  /\ ClassOfType(type) # "none" =>
                /\ r.kind = "returned"
                /\ r.connector.class = ClassOfType(type)
                /\ r.connector.name = type
                /\ r.connector.config.type = type
                /\ ~r.connector.config.settings.isString
                /\ r.connector.config.settings.value =
                        sel.organizationConnector.settings.value
            /\ ClassOfType(type) = "none" =>
                /\ r.kind = "thrown"
                /\ r.message = "Unsupported connector for vector database."
            /\ backendCalls = 0
            /\ deleteCalls = 0
            /\ collection = {}
            /\ dbRows = <<>>
            /\ \A d \in DOMAIN cacheFiles : ~cacheFiles[d].written

C10_Witness ==
    /\ sel.pc = "done"
    /\ sel.organizationConnector.type = "clickhouse"
    /\ sel.organizationConnector.settings.isString
    /\ sel.result.kind = "returned"

(***************************************************************************)
(* Properties of the other connector operations.                           *)
(***************************************************************************)
\* C11 (as claimed): every ClickHouse operation leaves no client it opened
\* unclosed when it returns or throws, also when the ping or the query throws
\* or the ping reports an unsuccessful result.
C11_NoClientLeftOpen ==
    (call.pc = "done" /\ call.conn = "clickhouse" /\ call.op # "connect") =>
        call.closed = call.opened

\* some request of the call was rejected (or connect refused)
SomeFailure(f) == f.failed # <<>> \/ f.swallowed # <<>>

\* the empty / zero value of a read operation, with its cause where the
\* operation reports one
Degraded(f) ==
    /\ f.result.flag = FALSE
    /\ f.result.n = 0
    /\ f.result.list = <<>>
    /\ f.result.ids = <<>>
    /\ f.op \in {"heartbeat", "totalIndicies", "rawGet"} => f.result.error # NoMessage

\* C12 (as claimed): heartbeat, totalIndicies, namespaces, rawGet,
\* similarityResponse and getMetadata never throw, and after any backend
\* failure (connect failure, unhealthy backend, failing request) they return
\* {result:false,error}, {result:0,error}, an empty list,
\* {ids:[],data:[],error}, the all-empty structure and an empty list.
C12_ReadOpsDegrade ==
    /\ (call.pc = "done" /\ call.op \in ReadOps) =>
            /\ call.result.kind = "returned"
            /\ SomeFailure(call) => Degraded(call)
    /\ sr.pc = "done" =>
            /\ sr.kind = "returned"
            /\ ~sr.searched => sr.response = EmptyResponse

\* C12 (amended): the read operations never throw; when connect fails or a
\* request outside a per-collection loop is rejected they return the value
\* of their catch block ({result:false,error}, {result:0,error}, [],
\* {ids:[],data:[],error}, the all-empty structure, []); a rejected
\* per-collection request inside Milvus totalIndicies / namespaces is
\* swallowed: the call goes on with error null, and namespaces lists that
\* collection with count 0.
C12_ReadOpsDegradeTopLevel ==
    /\ (call.pc = "done" /\ call.op \in ReadOps) =>
            /\ call.result.kind = "returned"
            /\ call.failed # <<>> =>
                    /\ call.result = OpReturned(CatchValue(call.op, call.failed[1]))
                    /\ Degraded(call)
            /\ call.failed = <<>> =>
                    /\ call.result.error = NoMessage
                    /\ call.op = "namespaces" /\ call.conn = "milvus" =>
                        /\ Len(call.result.list) = Len(call.names)
                        /\ \A i \in DOMAIN call.names :
                            /\ call.result.list[i].name = call.names[i]
                            /\ i \in Range(call.swallowed) =>
                                    call.result.list[i].n = 0
    /\ sr.pc = "done" =>
            /\ sr.kind = "returned"
            /\ ~sr.searched => sr.response = EmptyResponse

C12_Witness ==
    /\ call.pc = "done"
    /\ call.conn = "milvus"
    /\ call.op = "totalIndicies"
    /\ call.reqs = <<"checkHealth", "listCollections">>
    /\ call.failed = <<"listCollections failed">>
    /\ call.result.kind = "returned"

\* C13 (as claimed): namespaceExists returns a boolean and never throws; for
\* any error it returns false.
C13_NamespaceExistsNeverThrows ==
    (call.pc = "done" /\ call.op = "namespaceExists") =>
        /\ call.result.kind = "returned"
        /\ call.result.flag \in BOOLEAN
        /\ SomeFailure(call) => call.result.flag = FALSE

\* C13 (amended): called with a non-empty name, namespaceExists returns a
\* boolean and never throws, and returns false for any error; called without
\* a name or with an empty one it throws the missing-argument error before
\* any connection is opened.
C13_NamespaceExistsNamed ==
    (call.pc = "done" /\ call.op = "namespaceExists") =>
        /\ call.name # "" =>
            /\ call.result.kind = "returned"
            /\ call.result.flag \in BOOLEAN
            /\ SomeFailure(call) => call.result.flag = FALSE
        /\ call.name = "" =>
            /\ call.result = OpThrown(MissingNameError(call.conn))
            /\ call.opened = 0
            /\ call.reqs = <<>>

C13_Witness ==
    /\ call.pc = "done"
    /\ call.op = "namespaceExists"
    /\ call.name # ""
    /\ call.probe \in {"unhealthy", "unsuccessful"}
    /\ call.result.kind = "returned"
    /\ call.result.flag = FALSE

\* C14: namespace(name) throws a missing-argument error before any connection
\* is opened when name is omitted or empty; for a non-empty name it does not
\* throw and returns null whenever the backend lookup fails.
C14_Namespace ==
    (call.pc = "done" /\ call.op = "namespace") =>
        /\ call.name = "" =>
            /\ call.result = OpThrown(MissingNameError(call.conn))
            /\ call.opened = 0
            /\ call.reqs = <<>>
            /\ backendCalls = 0
        /\ call.name # "" =>
            /\ call.result.kind = "returned"
            /\ SomeFailure(call) => call.result.isNull

C14_Witness ==
    /\ call.pc = "done"
    /\ call.op = "namespace"
    /\ call.name = ""
    /\ call.result.kind = "thrown"

\* C15: deleteVectors never throws; it returns {success:true} whenever the
\* backend delete completes, also when ids are absent from the namespace (no
\* request precedes the delete but the probe of connect), and
\* {success:false, error} when connect or the delete fails.
C15_DeleteVectors ==
    (call.pc = "done" /\ call.op = "deleteVectors") =>
        /\ call.result.kind = "returned"
        /\ Range(call.reqs) \subseteq {"ping", "checkHealth", "delete"}
        /\ call.failed = <<>> =>
            /\ call.result.flag = TRUE
            /\ call.result.error = NoMessage
            /\ call.reqs[Len(call.reqs)] = "delete"
            /\ collection \cap Range(call.ids) = {}
        /\ call.failed # <<>> =>
            /\ call.result.flag = FALSE
            /\ call.result.error = call.failed[1]

C15_Witness ==
    /\ call.pc = "done"
    /\ call.op = "deleteVectors"
    /\ call.ids = <<1, 9>>
    /\ call.result.kind = "returned"
    /\ call.result.flag = TRUE
    /\ collection = {2}

\* C16 (as claimed): connect of every connector throws when the configured
\* type is not the backend of the connector class and when the health probe
\* reports unhealthy / unsuccessful; it returns a client only when both
\* checks pass.
C16_ConnectChecks ==
    (call.pc = "done" /\ call.op = "connect") =>
        /\ call.type # call.conn => call.result.kind = "thrown"
        /\ call.probe \in {"unhealthy", "unsuccessful", "throw"} =>
                call.result.kind = "thrown"
        /\ call.result.kind = "returned" =>
                /\ call.type = call.conn
                /\ call.probe \in {"healthy", "success"}

(***************************************************************************)
(* Properties of the validators.                                           *)
(***************************************************************************)
\* C17: validateNewDatabaseConnector creates an OrganizationConnection only
\* after the probe of the given type returned valid = true; for an
\* unsupported type it returns an error with no probe and no row, and for a
\* failed probe it returns {connector: null, error: <probe message>} with no
\* row.
C17_CreateOnlyAfterValid ==
    /\ orgConnections # <<>> =>
            /\ val.statusCheck.valid
            /\ val.outcome = ProbeOk
            /\ orgConnections = <<[type |-> val.type, settings |-> val.settings]>>
    /\ val.result.created => orgConnections # <<>>
    /\ (val.pc = "done" /\ val.type \notin SupportedConnectors) =>
            /\ val.result = ValReturned(FALSE, "Unsupported vector database type.")
            /\ val.probes = <<>>
            /\ val.clients = 0
            /\ backendCalls = 0
            /\ orgConnections = <<>>
    /\ (val.pc = "done" /\ val.type \in SupportedConnectors
            /\ ~val.statusCheck.valid) =>
            /\ val.result = ValReturned(FALSE, val.statusCheck.message)
            /\ orgConnections = <<>>

C17_Witness ==
    /\ val.pc = "done"
    /\ val.type = "milvus"
    /\ val.probes = <<"checkHealth">>
    /\ val.result = ValReturned(TRUE, NoMessage)
    /\ Len(orgConnections) = 1

\* the validator of val.type has returned its status check
ValidatorDone == val.pc \in {"create", "done"} /\ val.type \in SupportedConnectors

\* C18: a validator returns valid = true only if its probe completed and
\* reported healthy / ready; otherwise it returns {valid: false, message}
\* and does not throw; a thrown transport error gives valid = false with the
\* transport message, an unsuccessful ClickHouse ping gives valid = false.
C18_ValidOnlyIfHealthy ==
    ValidatorDone =>
        /\ val.statusCheck.valid =>
                /\ val.outcome = ProbeOk
                /\ val.probes = <<ProbeOf(val.type)>>
        /\ ~val.statusCheck.valid =>
                /\ val.statusCheck.message # NoMessage
                /\ val.result.kind = "returned"
        /\ val.outcome.kind = "throw" =>
                /\ ~val.statusCheck.valid
                /\ val.outcome.message # "" =>
                        val.statusCheck.message = val.outcome.message
        /\ (val.type = "clickhouse" /\ val.outcome = ProbeNotReady) =>
                /\ ~val.statusCheck.valid
                /\ val.statusCheck.message = "ClickHouse::Ping failed."

C18_Witness ==
    /\ val.pc = "done"
    /\ val.type = "clickhouse"
    /\ val.outcome = ProbeNotReady
    /\ val.probes = <<"ping">>
    /\ val.statusCheck = StatusCheck(FALSE, "ClickHouse::Ping failed.")

\* C19: validateChroma called with an auth token and no header name returns
\* valid = false and neither constructs a client nor issues a heartbeat.
C19_ChromaTokenNeedsHeader ==
    (ValidatorDone /\ val.type = "chroma"
        /\ val.settings.authToken /\ ~val.settings.authTokenHeader) =>
            /\ ~val.statusCheck.valid
            /\ val.statusCheck.message =
                    "Auth token set but no request header set - set a header!"
            /\ val.clients = 0
            /\ val.probes = <<>>
            /\ backendCalls = 0

C19_Witness ==
    /\ val.pc = "done"
    /\ val.type = "chroma"
    /\ val.settings.authToken
    /\ ~val.settings.authTokenHeader
    /\ val.result.kind = "returned"
    /\ ~val.result.created

CountReq(f, req) == Cardinality({i \in DOMAIN f.reqs : f.reqs[i] = req})

\* how many requests req one call of f.op sends at most when none is
\* repeated: one per collection reached in a loop, the probe of connect and
\* the probe of heartbeat, the two queries of ClickHouse.namespace
Attempts(f, req) ==
    IF req \in {"getCollectionStatistics", "describeCollection"}
       /\ f.op \in {"totalIndicies", "namespaces"}
    THEN f.i
    ELSE IF req \in {"ping", "checkHealth"} /\ f.op = "heartbeat" THEN 2
    ELSE IF req = "query" /\ f.conn = "clickhouse" /\ f.op = "namespace" THEN 2
    ELSE 1

\* C21: no operation retries: after a call to the backend or the provider
\* failed, the operation issues no further call (a failure inside a
\* per-collection loop only moves on to the next collection), and the
\* embedding request, each insert batch, the delete and each query are
\* attempted at most once.
C21_NoRetry ==
    /\ \A p \in active :
        LET f == pd[p]
        IN  /\ \A i \in DOMAIN f.log :
                    ~f.log[i].ok => i = Len(f.log) /\ f.pc = "done"
                                        /\ f.outstanding = 0
            /\ \A op \in {"split", "embed", "connect", "load", "createMany", "store"} :
                    Count(f, op, TRUE) + Count(f, op, FALSE) <= 1
            /\ Len(f.sent) <= NumBatches(f)
            /\ \A k \in DOMAIN f.sent : f.sent[k] = BatchIds(f, k)
    /\ Len(call.failed) <= 1
    /\ call.failed # <<>> => call.pc = "done"
    /\ Len(call.swallowed) <= call.i
    /\ \A k, l \in DOMAIN call.swallowed :
            k # l => call.swallowed[k] # call.swallowed[l]
    /\ \A req \in Range(call.reqs) : CountReq(call, req) <= Attempts(call, req)
    /\ deleteCalls <= 1

C21_Witness ==
    \E p \in active :
        /\ pd[p].pc = "done"
        /\ NumBatches(pd[p]) = 3
        /\ Len(pd[p].sent) = 2
        /\ Has(pd[p], "insert", FALSE)
        /\ pd[p].result = Returned(FALSE, "insert failed")

(***************************************************************************)
(* Concurrent ingestion.                                                   *)
(***************************************************************************)
\* the ids of the vector records invocation p generated
VectorIdsOf(p) == {pd[p].vectors[i].id : i \in DOMAIN pd[p].vectors}

\* C22: for any interleaving of two processDocument invocations of two
\* documents into one namespace, the vector ids are pairwise distinct, and
\* each DocumentVectors row pairs a vector id with the docId / documentId of
\* the invocation that generated that vector.
C22_DistinctIdsOwnRows ==
    /\ \A p, q \in active : p # q => VectorIdsOf(p) \cap VectorIdsOf(q) = {}
    /\ \A p \in active : \A i, j \in DOMAIN pd[p].vectors :
            i # j => pd[p].vectors[i].id # pd[p].vectors[j].id
    /\ collection \subseteq UNION {VectorIdsOf(p) : p \in active}
    /\ \A r \in DOMAIN dbRows :
        \E p \in active :
            /\ dbRows[r].vectorId \in VectorIdsOf(p)
            /\ dbRows[r].docId = DocOf(p)
            /\ dbRows[r].documentId = DbDocument(p).id
    /\ \A r, t \in DOMAIN dbRows : r # t => dbRows[r].vectorId # dbRows[t].vectorId

\* the invocation that embedded first writes its rows last
C22_Witness ==
    /\ \A p \in active : pd[p].pc = "done" /\ pd[p].result.success
    /\ Len(pd[1].vectors) = 3
    /\ Len(pd[2].vectors) = 2
    /\ pd[1].vectors[1].id < pd[2].vectors[1].id
    /\ dbRows[1].docId = DocOf(2)
    /\ dbRows[Len(dbRows)].docId = DocOf(1)
    /\ Cardinality(collection) = 5

\* C23 (as claimed): when processDocument returns success = false, no
\* DocumentVectors row of that invocation has been persisted, also when the
\* failure is in the cache write that follows the mapping write.
C23_FailureLeavesNoRows ==
    \A p \in active :
        (pd[p].pc = "done" /\ ~pd[p].result.success) => RowsOfDoc(DocOf(p)) = {}

(***************************************************************************)
(* Properties of the logger.                                               *)
(***************************************************************************)
\* C24: publishLog writes every entry to the console whatever the NATS
\* state, publishes only when connected is true and js is set, and never
\* lets an exception out when NATS is unavailable or the publish fails.
C24_ConsoleAlwaysNatsGuarded ==
    \A i \in DOMAIN lg.calls :
        LET c == lg.calls[i]
        IN  /\ c.console
            /\ c.sent <=> (c.connected /\ c.js # 0)
            /\ c.kind # "thrown"
            /\ ~c.sent => c.kind = "returned" /\ c.outcome = "none"
            /\ c.outcome \in {"resolved", "rejected"} =>
                    c.sent /\ c.kind = "returned"

C24_Witness ==
    \E i, j \in DOMAIN lg.calls :
        /\ lg.calls[i].outcome = "rejected"
        /\ lg.conns[lg.calls[i].js].status = "closed"
        /\ lg.calls[i].kind = "returned"
        /\ ~lg.calls[j].sent
        /\ lg.calls[j].console

\* the logger holds a connection that has not closed
HoldsLiveConnection(l) == l.nc # 0 /\ l.conns[l.nc].status = "open"

\* C25 (as claimed): under any interleaving of init, close and closed
\* events, isConnected() is true exactly when the logger holds a connection
\* that has not closed.
C25_IsConnectedExact ==
    lg.pc = "running" => (lg.connected <=> HoldsLiveConnection(lg))

(***************************************************************************)
(* Properties of /auth/transfer-root.                                      *)
(***************************************************************************)
\* C26 (as claimed): transfer-root creates an admin only while no admin
\* exists: under any interleaving of concurrent requests at most one admin
\* is created through the endpoint, and a request that arrives once an admin
\* exists is rejected without creating a user.
C26_AtMostOneAdmin ==
    /\ Cardinality({r \in Requests : auth.reqs[r].created}) <= 1
    /\ UserCount(auth.users, "admin") <= 1
    /\ \A r \in Requests :
        /\ auth.reqs[r].created => auth.reqs[r].adminsAtCreate = 0
        /\ (auth.reqs[r].pc = "done" /\ auth.reqs[r].adminsAtStart > 0) =>
                ~auth.reqs[r].created /\ ~auth.reqs[r].valid

====
